---- MODULE Spec2Model ----
(***************************************************************************)
(* Search index of mrodozov/opencloud_fork: the embedded (bleve) and the   *)
(* clustered (opensearch) index backend, their Batch operators, and the    *)
(* space debouncer of the event service.                                   *)
(*                                                                         *)
(* Strings that the code inspects character by character (paths, names,    *)
(* locations) are sequences of one-character strings; identifiers that the *)
(* code only compares for equality (ID, RootID, ParentID) are atoms.       *)
(***************************************************************************)
EXTENDS Integers, Sequences, FiniteSets, TLC

VARIABLES
    backend,      \* "bleve" | "opensearch": the engine chosen at startup
    index,        \* the documents of the index, a set of Resource records
    batch,        \* bleve Batch.batch: pending operations keyed by document ID
    operations,   \* opensearch Batch.operations: staged operations, in order
    size,         \* Batch.size
    last,         \* the last call on the engine or the Batch and how it ended
    searchRes,    \* the matches of the last Search, or the count of DocCount
    nCalls,       \* staging calls made on the Batch so far
    deb,          \* SpaceDebouncer: per space its state, timers and callbacks
    trig,         \* per space the triggers received, while they form one burst
    acked,        \* per space the callbacks invoked for those triggers
    reindexes,    \* per space the reindex calls started for those triggers
    asyncUploads, \* event Service: the asyncUploads argument of New
    numConsumers, \* Service.numConsumers
    ch,           \* the channel Consume returned: the events waiting in it
    chClosed,     \* the stream has closed the channel Consume returned
    nSent,        \* events the stream has put on the channel so far
    workers,      \* per worker goroutine its position and the event it holds
    run,          \* the position of Run
    ctxDone,      \* the context Run derives for its workers is cancelled
    stopped,      \* Service.stopped
    stopCh,       \* Service.stopCh: the number of close(stopCh) executed
    closers,      \* per Close call its position
    evlog,        \* the calls made for the events, in the order they were made
    handed,       \* per space the events whose Ack the debouncer holds
    svc,          \* the search service: where its startup stands and how it ended
    cache,        \* gRPC Service.cache: the responses cached, by cache key
    reply,        \* the last Search request on the gRPC handler and its reply
    gw,           \* the calls of ResolveReference and statResource and what they returned
    mu,           \* opensearch Batch.mu: the caller that holds it, 0 when free
    callers,      \* per concurrent caller of one Batch its position in its call
    entryLog      \* per staged entry whether it was staged and how often it ran

idxVars == <<backend, index, batch, operations, size, last, searchRes, nCalls>>
debVars == <<deb, trig, acked, reindexes>>
evVars == <<asyncUploads, numConsumers, ch, chClosed, nSent, workers, run, ctxDone,
            stopped,
            stopCh, closers, evlog, handed>>
svcVars == <<svc, cache, reply, gw>>
conVars == <<mu, callers, entryLog>>
vars == <<backend, index, batch, operations, size, last, searchRes, nCalls,
          deb, trig, acked, reindexes,
          asyncUploads, numConsumers, ch, chClosed, nSent, workers, run, ctxDone,
            stopped,
          stopCh, closers, evlog, handed,
          svc, cache, reply, gw,
          mu, callers, entryLog>>

(***************************************************************************)
(* Bounds of the model.                                                    *)
(***************************************************************************)
MaxSize == 3
MaxCalls == 3
\* the debounce window and the maximum-wait ceiling, in ticks of the clock
DebounceAfter == 2
MaxWait == 4
\* the longest burst whose triggers are counted
MaxTriggers == 3
\* the event service: worker goroutines, events the stream delivers, Close calls
MaxConsumers == 2
MaxEvents == 2
MaxCloses == 2
\* the gRPC handler: responses its cache holds at a time
MaxCached == 1
\* the calls of the gateway helpers that are followed
MaxGatewayCalls == 2

(***************************************************************************)
(* Strings.                                                                *)
(***************************************************************************)
HasPrefix(s, p) == Len(p) <= Len(s) /\ SubSeq(s, 1, Len(p)) = p

HasSuffix(s, p) == Len(p) <= Len(s) /\ SubSeq(s, Len(s) - Len(p) + 1, Len(s)) = p

TrimSuffix(s, p) == IF HasSuffix(s, p) THEN SubSeq(s, 1, Len(s) - Len(p)) ELSE s

\* strings.Index: the first position at which old occurs in s, 0 when it does not
StrIndex(s, old) ==
    LET hits == {i \in 1..(Len(s) - Len(old) + 1) : SubSeq(s, i, i + Len(old) - 1) = old}
    IN IF hits = {} THEN 0 ELSE CHOOSE i \in hits : \A j \in hits : i <= j

\* strings.Replace(s, old, new, 1)
ReplaceFirst(s, old, new) ==
    LET i == StrIndex(s, old)
    IN IF i = 0 THEN s
       ELSE SubSeq(s, 1, i - 1) \o new \o SubSeq(s, i + Len(old), Len(s))

\* java.lang.String.replace(old, new) of the painless script: every occurrence
RECURSIVE ReplaceAll(_, _, _)
ReplaceAll(s, old, new) ==
    LET i == StrIndex(s, old)
    IN IF i = 0 \/ Len(old) = 0 THEN s
       ELSE SubSeq(s, 1, i - 1) \o new
            \o ReplaceAll(SubSeq(s, i + Len(old), Len(s)), old, new)

\* the elements of s between separators "/"
RECURSIVE SplitPath(_)
SplitPath(s) ==
    LET i == StrIndex(s, <<"/">>)
    IN IF i = 0 THEN <<s>>
       ELSE <<SubSeq(s, 1, i - 1)>> \o SplitPath(SubSeq(s, i + 1, Len(s)))

\* path.Clean of a rooted path, on its elements: "" and "." dropped, ".." pops
RECURSIVE CleanElems(_, _)
CleanElems(elems, acc) ==
    IF elems = <<>> THEN acc
    ELSE LET e == Head(elems)
         IN IF e = <<>> \/ e = <<".">> THEN CleanElems(Tail(elems), acc)
            ELSE IF e = <<".", ".">>
                 THEN CleanElems(Tail(elems),
                                 IF acc = <<>> THEN acc ELSE SubSeq(acc, 1, Len(acc) - 1))
                 ELSE CleanElems(Tail(elems), Append(acc, e))

RECURSIVE JoinRooted(_)
JoinRooted(elems) ==
    IF elems = <<>> THEN <<>> ELSE <<"/">> \o Head(elems) \o JoinRooted(Tail(elems))

\* utils.MakeRelativePath: "." + path.Join("/", p), and "." for the root
MakeRelativePath(p) ==
    LET joined == JoinRooted(CleanElems(SplitPath(p), <<>>))
    IN IF joined = <<>> THEN <<".">> ELSE <<".">> \o joined

\* path.Base
RECURSIVE TrimSlashes(_)
TrimSlashes(s) == IF HasSuffix(s, <<"/">>) THEN TrimSlashes(SubSeq(s, 1, Len(s) - 1)) ELSE s

PathBase(p) ==
    IF p = <<>> THEN <<".">>
    ELSE LET t == TrimSlashes(p)
         IN IF t = <<>> THEN <<"/">>
            ELSE LET elems == SplitPath(t) IN elems[Len(elems)]

(***************************************************************************)
(* search.Resource and the documents the model indexes.                    *)
(***************************************************************************)
Container == "container"
File == "file"

Resource(id, root, path, parent, type) ==
    [ID |-> id, RootID |-> root, Path |-> path, ParentID |-> parent, Type |-> type,
     Deleted |-> FALSE, Hidden |-> FALSE, Name |-> PathBase(path)]

\* two spaces: r1 holds a folder, a file in it and a sibling whose name starts
\* with the folder's name; r2 holds a file at a path that also exists in r1
Canon ==
    { Resource("d1", "r1", <<".", "/", "a">>, "r1", Container),
      Resource("d2", "r1", <<".", "/", "a", "/", "b">>, "d1", File),
      Resource("d3", "r1", <<".", "/", "a", "b">>, "r1", File),
      Resource("d4", "r2", <<".", "/", "a", "/", "b">>, "r2", File) }

IDs == {d.ID : d \in Canon}
MissingID == "dx"
CallIDs == IDs \cup {MissingID}
CanonOf(id) == CHOOSE d \in Canon : d.ID = id
NullDoc == Resource("", "", <<>>, "", File)

\* the locations a Move is called with; both name "./c"
Locations == { <<"/", "c">>, <<"c", "/">> }
ParentIDs == {"p"}

\* a call on an index client: bulk | query | batch, the staged positions it
\* carries, whether it returned without an error, whether a write request
\* went out, and the positions whose documents the index rejected
Call(k, pos, ok, sent) ==
    [k |-> k, pos |-> pos, ok |-> ok, sent |-> sent, rejected |-> <<>>]

\* what a call on a Batch or an engine leaves: its error, the index, what
\* stays staged, whether Push ran, and the calls issued on the index client;
\* stageErr and stage are what the staging step of the call returned and left
\* staged, before the size check
Result(err, idx, staged, pushed, calls) ==
    [err |-> err, idx |-> idx, staged |-> staged, pushed |-> pushed, calls |-> calls,
     stageErr |-> FALSE, stage |-> staged]

\* Eval({e(x) : x \in {v}}) is e(v), with v computed once
Eval(S) == CHOOSE v \in S : TRUE

AfterStage(f, entries, r) == [r EXCEPT !.stageErr = f.err, !.stage = entries]

(***************************************************************************)
(* Embedded backend: bleve.                                                *)
(***************************************************************************)
\* bleve.Batch keeps its operations in a map keyed by document ID
BatchIndex(b, id, doc) ==
    {e \in b : e.id # id} \cup {[id |-> id, del |-> FALSE, doc |-> doc]}

BatchIndexAll(b, docs) ==
    {e \in b : \A d \in docs : e.id # d.ID}
        \cup {[id |-> d.ID, del |-> FALSE, doc |-> d] : d \in docs}

BatchDeleteAll(b, docs) ==
    {e \in b : \A d \in docs : e.id # d.ID}
        \cup {[id |-> d.ID, del |-> TRUE, doc |-> NullDoc] : d \in docs}

BatchSize(b) == Cardinality(b)

\* bleve Index.Batch: every operation of the batch applied
IndexBatch(idx, b) ==
    {d \in idx : \A e \in b : e.id # d.ID} \cup {e.doc : e \in {x \in b : ~x.del}}

\* matchToResource: the resource built from the fields of a match; Hidden is
\* not among the fields it reads and keeps its zero value
matchToResource(d) == [d EXCEPT !.Hidden = FALSE]

\* the documents with this ID: none (entity not found) or one
BleveSearchResourceByID(idx, id) == {matchToResource(d) : d \in {x \in idx : x.ID = id}}

\* RootID:<rootId> AND Path:<lookupPath>/*
BleveSearchResourcesByPath(idx, rootId, lookupPath) ==
    {matchToResource(d) :
        d \in {x \in idx : x.RootID = rootId /\ HasPrefix(x.Path, lookupPath \o <<"/">>)}}

BleveSearchAndUpdateResourcesDeletionState(idx, id, state) ==
    LET found == BleveSearchResourceByID(idx, id)
    IN IF found = {} THEN [err |-> TRUE, resources |-> {}]
       ELSE LET root == CHOOSE d \in found : TRUE
                desc == IF root.Type = Container
                        THEN BleveSearchResourcesByPath(idx, root.RootID, root.Path)
                        ELSE {}
            IN [err |-> FALSE,
                resources |-> {[d EXCEPT !.Deleted = state] : d \in {root} \cup desc}]

BlevePush(idx, b, fail) ==
    AfterStage([err |-> FALSE], b,
        IF BatchSize(b) = 0 THEN Result(FALSE, idx, b, TRUE, <<>>)
        ELSE IF fail THEN Result(TRUE, idx, b, TRUE, <<Call("batch", <<>>, FALSE, TRUE)>>)
        ELSE Result(FALSE, IndexBatch(idx, b), {}, TRUE, <<Call("batch", <<>>, TRUE, TRUE)>>))

\* a size check that flushes only above the threshold
BleveWithSizeLimitAbove(idx, f0, sz, fail) ==
    Eval({ AfterStage(f, f.batch,
               IF f.err THEN Result(TRUE, idx, f.batch, FALSE, <<>>)
               ELSE IF BatchSize(f.batch) > sz THEN BlevePush(idx, f.batch, fail)
               ELSE Result(FALSE, idx, f.batch, FALSE, <<>>)) : f \in {f0} })

\* a size check that does not look at the outcome of the staging step first
BleveWithSizeLimitSizeFirst(idx, f0, sz, fail) ==
    Eval({ AfterStage(f, f.batch,
               IF BatchSize(f.batch) >= sz
               THEN [BlevePush(idx, f.batch, fail) EXCEPT !.err = @ \/ f.err]
               ELSE Result(f.err, idx, f.batch, FALSE, <<>>)) : f \in {f0} })

\* f is the outcome of the staging step: [err, batch]
BleveWithSizeLimit(idx, f0, sz, fail) ==
    Eval({ AfterStage(f, f.batch,
               IF f.err THEN Result(TRUE, idx, f.batch, FALSE, <<>>)
               ELSE IF BatchSize(f.batch) >= sz THEN BlevePush(idx, f.batch, fail)
               ELSE Result(FALSE, idx, f.batch, FALSE, <<>>)) : f \in {f0} })

BleveBatchUpsert(idx, b, sz, id, r, fail) ==
    BleveWithSizeLimit(idx, [err |-> FALSE, batch |-> BatchIndex(b, id, r)], sz, fail)

BleveMoveStage(idx, b, id, parentID, location) ==
    LET found == BleveSearchResourceByID(idx, id)
    IN IF found = {} THEN [err |-> TRUE, batch |-> b]
       ELSE LET root == CHOOSE d \in found : TRUE
                currentPath == root.Path
                nextPath == MakeRelativePath(location)
                moved == [root EXCEPT !.Path = nextPath,
                                      !.Name = PathBase(nextPath),
                                      !.ParentID = parentID]
                desc == IF root.Type = Container
                        THEN BleveSearchResourcesByPath(idx, root.RootID, currentPath)
                        ELSE {}
                rewritten == {[d EXCEPT !.Path = ReplaceFirst(d.Path, currentPath, nextPath)]
                                : d \in desc}
            IN [err |-> FALSE, batch |-> BatchIndexAll(BatchIndex(b, moved.ID, moved), rewritten)]

BleveBatchMove(idx, b, sz, id, parentID, location, fail) ==
    BleveWithSizeLimit(idx, BleveMoveStage(idx, b, id, parentID, location), sz, fail)

BleveDeletionStage(idx, b, id, state) ==
    LET r == BleveSearchAndUpdateResourcesDeletionState(idx, id, state)
    IN IF r.err THEN [err |-> TRUE, batch |-> b]
       ELSE [err |-> FALSE, batch |-> BatchIndexAll(b, r.resources)]

BleveBatchDelete(idx, b, sz, id, fail) ==
    BleveWithSizeLimit(idx, BleveDeletionStage(idx, b, id, TRUE), sz, fail)

BleveBatchRestore(idx, b, sz, id, fail) ==
    BleveWithSizeLimit(idx, BleveDeletionStage(idx, b, id, FALSE), sz, fail)

BlevePurgeStage(idx, b, id, onlyDeleted) ==
    LET found == BleveSearchResourceByID(idx, id)
    IN IF found = {} THEN [err |-> TRUE, batch |-> b]
       ELSE LET root == CHOOSE d \in found : TRUE
                desc == IF root.Type = Container
                        THEN BleveSearchResourcesByPath(idx, root.RootID, root.Path)
                        ELSE {}
                affected == {d \in {root} \cup desc : ~(onlyDeleted /\ ~d.Deleted)}
            IN [err |-> FALSE, batch |-> BatchDeleteAll(b, affected)]

BleveBatchPurge(idx, b, sz, id, onlyDeleted, fail) ==
    BleveWithSizeLimit(idx, BlevePurgeStage(idx, b, id, onlyDeleted), sz, fail)

(***************************************************************************)
(* Clustered backend: opensearch.                                          *)
(***************************************************************************)
\* a staged operation; upsert is bulk-compatible, the others are closures that
\* run a query-addressed request
Op(k, id, doc, parentID, location, path, flag) ==
    [k |-> k, id |-> id, doc |-> doc, parentID |-> parentID, location |-> location,
     path |-> path, flag |-> flag]

OpUpsert(id, r) == Op("upsert", id, r, "", <<>>, <<>>, FALSE)
OpMove(id, parentID, location) == Op("move", id, NullDoc, parentID, location, <<>>, FALSE)
OpSetDeleted(id, deleted) == Op("deleted", id, NullDoc, "", <<>>, <<>>, deleted)
OpPurge(path, onlyDeleted) == Op("purge", "", NullDoc, "", <<>>, path, onlyDeleted)

OSSearchResourceByID(idx, id) == {d \in idx : d.ID = id}

\* the term query on Path: the document's path is the term or lies below it
PathTermMatches(docPath, term) ==
    docPath = term \/ HasPrefix(docPath, term \o <<"/">>)

\* a Move script that renames every document it runs on
MoveScriptRenamesAll(d, id, parentID, oldPath, newPath, newName) ==
    [d EXCEPT !.Name = newName, !.ParentID = IF d.ID = id THEN parentID ELSE @,
              !.Path = ReplaceAll(d.Path, oldPath, newPath)]

\* the painless script of Move
MoveScript(d, id, parentID, oldPath, newPath, newName) ==
    LET d1 == IF d.ID = id THEN [d EXCEPT !.Name = newName, !.ParentID = parentID] ELSE d
    IN [d1 EXCEPT !.Path = ReplaceAll(d.Path, oldPath, newPath)]

\* the painless script of Delete and Restore
DeletedScript(d, deleted) == [d EXCEPT !.Deleted = deleted]

\* an update that treats a resource it cannot find as nothing to do
OSUpdateIgnoringNotFound(idx, op, fail) ==
    LET found == OSSearchResourceByID(idx, op.id)
    IN IF found = {} THEN [err |-> FALSE, idx |-> idx, sent |-> FALSE]
       ELSE IF fail THEN [err |-> TRUE, idx |-> idx, sent |-> TRUE]
       ELSE LET resource == CHOOSE d \in found : TRUE
                newPath == MakeRelativePath(op.location)
                script(d) == IF op.k = "move"
                             THEN MoveScript(d, op.id, op.parentID, resource.Path,
                                             newPath, PathBase(newPath))
                             ELSE DeletedScript(d, op.flag)
            IN [err |-> FALSE, sent |-> TRUE,
                idx |-> {IF PathTermMatches(d.Path, resource.Path) THEN script(d) ELSE d
                           : d \in idx}]

\* updateSelfAndDescendants with the script of op; fail: the request fails
OSUpdateSelfAndDescendants(idx, op, fail) ==
    LET found == OSSearchResourceByID(idx, op.id)
    IN IF found = {} THEN [err |-> TRUE, idx |-> idx, sent |-> FALSE]
       ELSE IF fail THEN [err |-> TRUE, idx |-> idx, sent |-> TRUE]
       ELSE LET resource == CHOOSE d \in found : TRUE
                newPath == MakeRelativePath(op.location)
                script(d) == IF op.k = "move"
                             THEN MoveScript(d, op.id, op.parentID, resource.Path,
                                             newPath, PathBase(newPath))
                             ELSE DeletedScript(d, op.flag)
            IN [err |-> FALSE, sent |-> TRUE,
                idx |-> {IF PathTermMatches(d.Path, resource.Path) THEN script(d) ELSE d
                           : d \in idx}]

\* the closure staged by Purge: delete by query on Path (and Deleted)
OSDeleteByQuery(idx, op, fail) ==
    IF fail THEN [err |-> TRUE, idx |-> idx, sent |-> TRUE]
    ELSE [err |-> FALSE, sent |-> TRUE,
          idx |-> {d \in idx : ~(PathTermMatches(d.Path, op.path)
                                 /\ (op.flag => d.Deleted))}]

OSRunOp(idx, op, fail) ==
    IF op.k = "purge" THEN OSDeleteByQuery(idx, op, fail)
    ELSE OSUpdateSelfAndDescendants(idx, op, fail)

\* the Bulk request: the index actions at the positions pos, in order
RECURSIVE OSBulk(_, _, _)
OSBulk(idx, ops, pos) ==
    IF pos = <<>> THEN idx
    ELSE LET op == ops[Head(pos)]
         IN OSBulk({d \in idx : d.ID # op.id} \cup {op.doc}, ops, Tail(pos))

CountRequests(calls) == Cardinality({i \in 1..Len(calls) : calls[i].sent})

\* a pushBulkOperations that records the failure of the Bulk request and
\* returns no error
OSPushBulkErrorSwallowed(idx, ops, bulk, calls, failAt) ==
    IF bulk = <<>> THEN [err |-> FALSE, idx |-> idx, calls |-> calls]
    ELSE IF CountRequests(calls) + 1 = failAt
         THEN [err |-> FALSE, idx |-> idx,
               calls |-> Append(calls, Call("bulk", bulk, FALSE, TRUE))]
         ELSE IF CountRequests(calls) + 1 = -failAt
         THEN [err |-> FALSE, idx |-> OSBulk(idx, ops, Tail(bulk)),
               calls |-> Append(calls, [Call("bulk", bulk, TRUE, TRUE)
                                          EXCEPT !.rejected = <<Head(bulk)>>])]
         ELSE [err |-> FALSE, idx |-> OSBulk(idx, ops, bulk),
               calls |-> Append(calls, Call("bulk", bulk, TRUE, TRUE))]

\* pushBulkOperations; failAt: which request of this Push fails, 0 for
\* none; -n: the n-th request, when it is a bulk request, is answered with
\* the first of its documents rejected and the others accepted.  Bulk
\* returns an error for a request that failed; a request answered with
\* per-document errors returns none, and its response is discarded
OSPushBulk(idx, ops, bulk, calls, failAt) ==
    IF bulk = <<>> THEN [err |-> FALSE, idx |-> idx, calls |-> calls]
    ELSE IF CountRequests(calls) + 1 = failAt
         THEN [err |-> TRUE, idx |-> idx,
               calls |-> Append(calls, Call("bulk", bulk, FALSE, TRUE))]
         ELSE IF CountRequests(calls) + 1 = -failAt
         THEN [err |-> FALSE, idx |-> OSBulk(idx, ops, Tail(bulk)),
               calls |-> Append(calls, [Call("bulk", bulk, TRUE, TRUE)
                                          EXCEPT !.rejected = <<Head(bulk)>>])]
         ELSE [err |-> FALSE, idx |-> OSBulk(idx, ops, bulk),
               calls |-> Append(calls, Call("bulk", bulk, TRUE, TRUE))]

\* a Push that drops the bulk group pending after the last entry
RECURSIVE OSPushLoopNoTrailingFlush(_, _, _, _, _, _)
OSPushLoopNoTrailingFlush(idx0, ops, i, bulk0, calls0, failAt) ==
    Eval({
        IF i > Len(ops) THEN [err |-> FALSE, idx |-> idx, calls |-> calls]
        ELSE IF ops[i].k = "upsert"
             THEN OSPushLoopNoTrailingFlush(idx, ops, i + 1, Append(bulk, i), calls, failAt)
             ELSE Eval({
                 IF flushed.err THEN flushed
                 ELSE Eval({
                     IF ran.err
                     THEN [err |-> TRUE, idx |-> ran.idx,
                           calls |-> Append(flushed.calls,
                                            Call("query", <<i>>, FALSE, ran.sent))]
                     ELSE OSPushLoopNoTrailingFlush(ran.idx, ops, i + 1, <<>>,
                              Append(flushed.calls, Call("query", <<i>>, TRUE, ran.sent)),
                              failAt)
                     : ran \in {OSRunOp(flushed.idx, ops[i],
                                        CountRequests(flushed.calls) + 1 = failAt)} })
                 : flushed \in {OSPushBulk(idx, ops, bulk, calls, failAt)} })
        : idx \in {idx0}, bulk \in {bulk0}, calls \in {calls0} })

\* the loop of Push over b.operations
RECURSIVE OSPushLoop(_, _, _, _, _, _)
OSPushLoop(idx0, ops, i, bulk0, calls0, failAt) ==
    Eval({
        IF i > Len(ops) THEN OSPushBulk(idx, ops, bulk, calls, failAt)
        ELSE IF ops[i].k = "upsert"
             THEN OSPushLoop(idx, ops, i + 1, Append(bulk, i), calls, failAt)
             ELSE Eval({
                 IF flushed.err THEN flushed
                 ELSE Eval({
                     IF ran.err
                     THEN [err |-> TRUE, idx |-> ran.idx,
                           calls |-> Append(flushed.calls,
                                            Call("query", <<i>>, FALSE, ran.sent))]
                     ELSE OSPushLoop(ran.idx, ops, i + 1, <<>>,
                              Append(flushed.calls, Call("query", <<i>>, TRUE, ran.sent)),
                              failAt)
                     : ran \in {OSRunOp(flushed.idx, ops[i],
                                        CountRequests(flushed.calls) + 1 = failAt)} })
                 : flushed \in {OSPushBulk(idx, ops, bulk, calls, failAt)} })
        : idx \in {idx0}, bulk \in {bulk0}, calls \in {calls0} })

OSPush(idx, ops, failAt) ==
    Eval({ AfterStage([err |-> FALSE], ops, Result(r.err, r.idx, <<>>, TRUE, r.calls))
             : r \in {OSPushLoop(idx, ops, 1, <<>>, <<>>, failAt)} })

\* f is the outcome of the staging step: [err, ops]
OSWithSizeLimit(idx, f0, sz, failAt) ==
    Eval({ AfterStage(f, f.ops,
               IF f.err THEN Result(TRUE, idx, f.ops, FALSE, <<>>)
               ELSE IF Len(f.ops) >= sz THEN OSPush(idx, f.ops, failAt)
               ELSE Result(FALSE, idx, f.ops, FALSE, <<>>)) : f \in {f0} })

OSBatchUpsert(idx, ops, sz, id, r, failAt) ==
    OSWithSizeLimit(idx, [err |-> FALSE, ops |-> Append(ops, OpUpsert(id, r))], sz, failAt)

OSBatchMove(idx, ops, sz, id, parentID, location, failAt) ==
    OSWithSizeLimit(idx, [err |-> FALSE, ops |-> Append(ops, OpMove(id, parentID, location))],
                    sz, failAt)

OSBatchDelete(idx, ops, sz, id, failAt) ==
    OSWithSizeLimit(idx, [err |-> FALSE, ops |-> Append(ops, OpSetDeleted(id, TRUE))], sz, failAt)

OSBatchRestore(idx, ops, sz, id, failAt) ==
    OSWithSizeLimit(idx, [err |-> FALSE, ops |-> Append(ops, OpSetDeleted(id, FALSE))], sz, failAt)

\* Purge looks the resource up when it is staged and keeps its path in the request
OSPurgeStage(idx, ops, id, onlyDeleted) ==
    LET found == OSSearchResourceByID(idx, id)
    IN IF found = {} THEN [err |-> TRUE, ops |-> ops]
       ELSE [err |-> FALSE,
             ops |-> Append(ops, OpPurge((CHOOSE d \in found : TRUE).Path, onlyDeleted))]

OSBatchPurge(idx, ops, sz, id, onlyDeleted, failAt) ==
    OSWithSizeLimit(idx, OSPurgeStage(idx, ops, id, onlyDeleted), sz, failAt)

(***************************************************************************)
(* The engines: every direct mutation is a batch of its own.               *)
(***************************************************************************)
defaultBatchSize == 50

\* batch.X(...) returned r; unless it failed, batch.Push() follows
BleveThenPush(r0, fail) ==
    Eval({ IF r.err THEN r
           ELSE Eval({ Result(p.err, p.idx, p.staged, TRUE, r.calls \o p.calls)
                         : p \in {BlevePush(r.idx, r.staged, fail)} })
           : r \in {r0} })

OSThenPush(r0, failAt) ==
    Eval({ IF r.err THEN r
           ELSE Eval({ Result(p.err, p.idx, p.staged, TRUE, r.calls \o p.calls)
                         : p \in {OSPush(r.idx, r.staged, failAt)} })
           : r \in {r0} })

BleveUpsert(idx, id, r, fail) ==
    BleveThenPush(BleveBatchUpsert(idx, {}, defaultBatchSize, id, r, fail), fail)

BleveMove(idx, id, parentID, location, fail) ==
    BleveThenPush(BleveBatchMove(idx, {}, defaultBatchSize, id, parentID, location, fail), fail)

BleveDelete(idx, id, fail) ==
    BleveThenPush(BleveBatchDelete(idx, {}, defaultBatchSize, id, fail), fail)

BleveRestore(idx, id, fail) ==
    BleveThenPush(BleveBatchRestore(idx, {}, defaultBatchSize, id, fail), fail)

BlevePurge(idx, id, onlyDeleted, fail) ==
    BleveThenPush(BleveBatchPurge(idx, {}, defaultBatchSize, id, onlyDeleted, fail), fail)

OSUpsert(idx, id, r, failAt) ==
    OSThenPush(OSBatchUpsert(idx, <<>>, defaultBatchSize, id, r, failAt), failAt)

OSMove(idx, id, parentID, location, failAt) ==
    OSThenPush(OSBatchMove(idx, <<>>, defaultBatchSize, id, parentID, location, failAt), failAt)

OSDelete(idx, id, failAt) ==
    OSThenPush(OSBatchDelete(idx, <<>>, defaultBatchSize, id, failAt), failAt)

OSRestore(idx, id, failAt) ==
    OSThenPush(OSBatchRestore(idx, <<>>, defaultBatchSize, id, failAt), failAt)

OSPurge(idx, id, onlyDeleted, failAt) ==
    OSThenPush(OSBatchPurge(idx, <<>>, defaultBatchSize, id, onlyDeleted, failAt), failAt)

(***************************************************************************)
(* Search.  A query is the set of document IDs its translation matches; a  *)
(* scope reference is [root, path], NoRef when the request carries none.   *)
(***************************************************************************)
NoRef == [root |-> "", path |-> <<>>]
DefaultPageSize == 200
OSMaxPageSize == 1000
\* math.MaxInt, as far as TLC's integers reach
MathMaxInt == 2147483647

\* a mapping without the default page
BlevePageSizeNoDefault(pageSize) ==
    IF pageSize = -1 THEN MathMaxInt ELSE pageSize

BlevePageSize(pageSize) ==
    IF pageSize = -1 THEN MathMaxInt
    ELSE IF pageSize = 0 THEN DefaultPageSize
    ELSE pageSize

OSPageSize(pageSize) ==
    IF pageSize = -1 THEN OSMaxPageSize
    ELSE IF pageSize = 0 THEN DefaultPageSize
    ELSE pageSize

\* a conjunction without the Deleted:false clause
BleveQueryAnyDeleted(idx, q, ref) ==
    {d \in idx : /\ d.ID \in q
                 /\ (ref # NoRef => d.RootID = ref.root)}

\* the conjunction bleve runs: Deleted:false AND <query> [AND RootID:<root>]
BleveQuery(idx, q, ref) ==
    {d \in idx : /\ d.Deleted = FALSE
                 /\ d.ID \in q
                 /\ (ref # NoRef => d.RootID = ref.root)}

\* the bool query opensearch runs: <query>, filter Deleted = false [, RootID = root]
OSQuery(idx, q, ref) ==
    {d \in idx : /\ d.ID \in q
                 /\ d.Deleted = FALSE
                 /\ (ref # NoRef => d.RootID = ref.root)}

\* the pages an index may return: sz of the matching documents, or all
Pages(matching, sz) ==
    IF sz >= Cardinality(matching) THEN {matching}
    ELSE {h \in SUBSET matching : Cardinality(h) = sz}

\* a secondary filter that compares the paths without the separator
InScopeNamePrefix(d, ref) ==
    LET hitPath == TrimSuffix(d.Path, <<"/">>)
        requestedPath == MakeRelativePath(ref.path)
        isRoot == hitPath = requestedPath
    IN ~(~isRoot /\ requestedPath # <<".">> /\ ~HasPrefix(hitPath, requestedPath))

\* the secondary filter on a hit of a scoped search
InScope(d, ref) ==
    LET hitPath == TrimSuffix(d.Path, <<"/">>)
        requestedPath == MakeRelativePath(ref.path)
        isRoot == hitPath = requestedPath
    IN ~(~isRoot /\ requestedPath # <<".">> /\ ~HasPrefix(hitPath, requestedPath \o <<"/">>))

\* matches and total of Search, given the page hits the index returned
SearchResponse(total, hits, ref) ==
    LET kept == IF ref = NoRef THEN hits ELSE {d \in hits : InScope(d, ref)}
    IN [matches |-> kept, total |-> total - Cardinality(hits \ kept)]

BleveSearch(idx, q, ref, hits) ==
    SearchResponse(Cardinality(BleveQuery(idx, q, ref)), hits, ref)

OSSearch(idx, q, ref, hits) ==
    SearchResponse(Cardinality(OSQuery(idx, q, ref)), hits, ref)

(***************************************************************************)
(* The engine behind search.Engine, as chosen at startup.                  *)
(* failAt: which write request of the call fails, 0 for none.              *)
(***************************************************************************)
EngineUpsertResult(be, idx, id, r, failAt) ==
    IF be = "bleve" THEN BleveUpsert(idx, id, r, failAt = 1) ELSE OSUpsert(idx, id, r, failAt)

EngineMoveResult(be, idx, id, parentID, location, failAt) ==
    IF be = "bleve" THEN BleveMove(idx, id, parentID, location, failAt = 1)
    ELSE OSMove(idx, id, parentID, location, failAt)

EngineDeleteResult(be, idx, id, failAt) ==
    IF be = "bleve" THEN BleveDelete(idx, id, failAt = 1) ELSE OSDelete(idx, id, failAt)

EngineRestoreResult(be, idx, id, failAt) ==
    IF be = "bleve" THEN BleveRestore(idx, id, failAt = 1) ELSE OSRestore(idx, id, failAt)

EnginePurgeResult(be, idx, id, onlyDeleted, failAt) ==
    IF be = "bleve" THEN BlevePurge(idx, id, onlyDeleted, failAt = 1)
    ELSE OSPurge(idx, id, onlyDeleted, failAt)

(***************************************************************************)
(* State and actions of the index.                                         *)
(***************************************************************************)
\* the last Search: its query, its scope and its response; for DocCount the
\* count, in total
NoSearch == [q |-> {}, ref |-> NoRef, matches |-> {}, total |-> 0]

\* the record of the last call.  nStaged and stagedOps are what the staging
\* step left, before the size check (for Push: what was staged when it began)
NoLast ==
    [op |-> "none", target |-> "", stageErr |-> FALSE, nStaged |-> 0,
     stagedOps |-> <<>>, err |-> FALSE, pushed |-> FALSE, calls |-> <<>>,
     arg |-> 0]

EngineLast(op) == [NoLast EXCEPT !.op = op, !.target = "engine"]

Refs == { NoRef,
          [root |-> "r1", path |-> <<"/">>],
          [root |-> "r1", path |-> <<"/", "a">>] }
PageSizes == {-1, 0, 1}
\* what the translated query matches: everything, or some of the documents
Queries == { IDs, {"d2", "d3"} }

(***************************************************************************)
(* The space debouncer the event service builds in New.  Its state machine *)
(* per space ID is idle -> pending (timer armed) -> firing -> idle.        *)
(***************************************************************************)
Spaces == {"r1", "r2"}

\* timer: ticks until the debounce timer expires; ceiling: ticks until the
\* maximum wait since the first trigger of the burst is over; cbs: the
\* callbacks accumulated (MaxTriggers + 1: more than are counted); waited: the
\* ticks since the first trigger of the burst
IdleSpace == [state |-> "idle", timer |-> 0, ceiling |-> 0, cbs |-> 0, waited |-> 0]

\* the triggers of a space are counted as long as each came less than the
\* debounce window after the previous one and all within the ceiling
NoTrigger == [counted |-> TRUE, n |-> 0, sinceLast |-> 0, sinceFirst |-> 0]
Uncounted == [counted |-> FALSE, n |-> 0, sinceLast |-> 0, sinceFirst |-> 0]

Sat(n, max) == IF n > max THEN max ELSE n

DebInit ==
    /\ deb = [s \in Spaces |-> IdleSpace]
    /\ trig = [s \in Spaces |-> NoTrigger]
    /\ acked = [s \in Spaces |-> 0]
    /\ reindexes = [s \in Spaces |-> 0]

(***************************************************************************)
(* The event service.  A worker is not started yet ("none"), waits in its  *)
(* select ("select"), is inside processEvent before its n-th call          *)
(* (step = n), or has returned ("exited").                                 *)
(***************************************************************************)
Workers == 1..MaxConsumers
Closers == 1..MaxCloses
\* a reference or resource ID is the space it lies in and a node in it; a
\* StorageSpaceId is a space with no node
NoRes == [space |-> "", node |-> ""]
NoEvent == [seq |-> 0, kind |-> "", Ref |-> NoRes, FileRef |-> NoRes, ID |-> NoRes]
NoWorker == [pc |-> "none", ev |-> NoEvent, step |-> 0]

\* the Service as New returns it, before Run: stopCh open, stopped false
EvNew ==
    /\ ch = <<>>
    /\ chClosed = FALSE
    /\ nSent = 0
    /\ workers = [w \in Workers |-> NoWorker]
    /\ run = "new"
    /\ ctxDone = FALSE
    /\ stopped = FALSE
    /\ stopCh = 0
    /\ closers = [c \in Closers |-> "idle"]
    /\ evlog = <<>>
    /\ handed = [s \in Spaces |-> {}]

\* the event service is not looked at
\* an error value: the Go type of the value and what it reports; wrapping
\* (fmt.Errorf with %w) changes the type and keeps the cause
Err(type, cause) == [type |-> type, cause |-> cause]
NoErr == Err("nil", "")

\* the answers of the cluster to the requests NewBackend makes; "" for a
\* request it did not make
NoHealth == [err |-> FALSE, timedOut |-> FALSE, status |-> ""]

\* the search service before its backend is constructed, its cache empty
NoService ==
    [state |-> "new", err |-> NoErr, ping |-> "", apply |-> "", health |-> NoHealth,
     requests |-> <<>>]

NoReply ==
    [status |-> "none", err |-> NoErr, cached |-> FALSE, query |-> <<>>, pageSize |-> 0,
     text |-> <<>>, scope |-> <<>>, size |-> 0, total |-> 0]

\* the callers that use one Batch at the same time
Callers == {1, 2}
IdleCaller == [pc |-> "idle", id |-> ""]
NoEntry == [staged |-> FALSE, runs |-> 0]

ConIdle ==
    /\ mu = 0
    /\ callers = [w \in Callers |-> IdleCaller]
    /\ entryLog = [id \in IDs |-> NoEntry]

SvcIdle ==
    /\ svc = NoService
    /\ cache = {}
    /\ reply = NoReply
    /\ gw = <<>>

EvIdle ==
    /\ asyncUploads = FALSE
    /\ numConsumers = 1
    /\ EvNew

Init ==
    /\ backend \in {"bleve", "opensearch"}
    /\ index = {}
    /\ batch = {}
    /\ operations = <<>>
    /\ size = defaultBatchSize
    /\ last = NoLast
    /\ searchRes = NoSearch
    /\ nCalls = 0
    /\ DebInit
    /\ EvIdle
    /\ SvcIdle
    /\ ConIdle

EngineDone(op, r) ==
    /\ index' = r.idx
    /\ last' = EngineLast(op)
    /\ searchRes' = NoSearch
    /\ UNCHANGED <<backend, batch, operations, size, nCalls>>
    /\ UNCHANGED debVars
    /\ UNCHANGED <<evVars, svcVars, conVars>>

EngineUpsert ==
    \E id \in IDs, failAt \in 0..1 :
        EngineDone("Upsert", EngineUpsertResult(backend, index, id, CanonOf(id), failAt))

EngineMove ==
    \E id \in CallIDs, parentID \in ParentIDs, location \in Locations, failAt \in 0..1 :
        EngineDone("Move", EngineMoveResult(backend, index, id, parentID, location, failAt))

EngineDelete ==
    \E id \in CallIDs, failAt \in 0..1 :
        EngineDone("Delete", EngineDeleteResult(backend, index, id, failAt))

EngineRestore ==
    \E id \in CallIDs, failAt \in 0..1 :
        EngineDone("Restore", EngineRestoreResult(backend, index, id, failAt))

EnginePurge ==
    \E id \in CallIDs, onlyDeleted \in BOOLEAN, failAt \in 0..1 :
        EngineDone("Purge", EnginePurgeResult(backend, index, id, onlyDeleted, failAt))

\* DocCount: bleve asks the index for its document count, opensearch counts
\* with the term query Deleted = false
BleveDocCount(idx) == Cardinality(idx)
OSDocCount(idx) == Cardinality({d \in idx : d.Deleted = FALSE})

EngineDocCount ==
    /\ searchRes' = [NoSearch EXCEPT !.total = IF backend = "bleve" THEN BleveDocCount(index)
                                               ELSE OSDocCount(index)]
    /\ last' = EngineLast("DocCount")
    /\ UNCHANGED <<backend, index, batch, operations, size, nCalls>>
    /\ UNCHANGED debVars
    /\ UNCHANGED <<evVars, svcVars, conVars>>

EngineSearch ==
    \E q \in Queries, ref \in Refs, pageSize \in PageSizes :
        LET matching == IF backend = "bleve" THEN BleveQuery(index, q, ref)
                        ELSE OSQuery(index, q, ref)
            sz == IF backend = "bleve" THEN BlevePageSize(pageSize) ELSE OSPageSize(pageSize)
        IN \E hits \in Pages(matching, sz) :
            /\ LET res == IF backend = "bleve" THEN BleveSearch(index, q, ref, hits)
                          ELSE OSSearch(index, q, ref, hits)
               IN searchRes' = [q |-> q, ref |-> ref,
                                matches |-> res.matches, total |-> res.total]
            /\ last' = EngineLast("Search")
            /\ UNCHANGED <<backend, index, batch, operations, size, nCalls>>
            /\ UNCHANGED debVars
            /\ UNCHANGED <<evVars, svcVars, conVars>>

Next ==
    \/ EngineUpsert
    \/ EngineMove
    \/ EngineDelete
    \/ EngineRestore
    \/ EnginePurge
    \/ EngineSearch
    \/ EngineDocCount

Spec == Init /\ [][Next]_vars

(***************************************************************************)
(* One Batch of either backend, used by a single caller on an index that   *)
(* holds the documents of Canon.                                           *)
(***************************************************************************)
BatchUpsertIDs == {"d2", "d3"}
BatchIDs == {"d1", MissingID}
BatchLocations == { <<"/", "c">> }
\* which write request of a call fails, 0 for none; -1: the first request
\* is answered with a document rejected
FailAts == -1..2

BatchUpsertResult(be, idx, b, ops, sz, id, r, failAt) ==
    IF be = "bleve" THEN BleveBatchUpsert(idx, b, sz, id, r, failAt = 1)
    ELSE OSBatchUpsert(idx, ops, sz, id, r, failAt)

BatchMoveResult(be, idx, b, ops, sz, id, parentID, location, failAt) ==
    IF be = "bleve" THEN BleveBatchMove(idx, b, sz, id, parentID, location, failAt = 1)
    ELSE OSBatchMove(idx, ops, sz, id, parentID, location, failAt)

BatchDeleteResult(be, idx, b, ops, sz, id, failAt) ==
    IF be = "bleve" THEN BleveBatchDelete(idx, b, sz, id, failAt = 1)
    ELSE OSBatchDelete(idx, ops, sz, id, failAt)

BatchRestoreResult(be, idx, b, ops, sz, id, failAt) ==
    IF be = "bleve" THEN BleveBatchRestore(idx, b, sz, id, failAt = 1)
    ELSE OSBatchRestore(idx, ops, sz, id, failAt)

BatchPurgeResult(be, idx, b, ops, sz, id, onlyDeleted, failAt) ==
    IF be = "bleve" THEN BleveBatchPurge(idx, b, sz, id, onlyDeleted, failAt = 1)
    ELSE OSBatchPurge(idx, ops, sz, id, onlyDeleted, failAt)

BatchPushResult(be, idx, b, ops, failAt) ==
    IF be = "bleve" THEN BlevePush(idx, b, failAt = 1) ELSE OSPush(idx, ops, failAt)

\* the number of staged entries: bleve counts the keys of its map, opensearch
\* the operations of its slice
StagedCount(be, staged) == IF be = "bleve" THEN BatchSize(staged) ELSE Len(staged)

\* NewBatch refusing only the negative sizes
BleveNewBatchNegativeOnly(sz) ==
    IF sz < 0
    THEN [err |-> TRUE, made |-> FALSE, size |-> 0, staged |-> {}]
    ELSE [err |-> FALSE, made |-> TRUE, size |-> sz, staged |-> {}]

\* NewBatch of the bleve backend: an error and nil for a size that is not
\* positive, else an operator of that size around a new, empty index batch
BleveNewBatch(sz) ==
    IF sz <= 0
    THEN [err |-> TRUE, made |-> FALSE, size |-> 0, staged |-> {}]
    ELSE [err |-> FALSE, made |-> TRUE, size |-> sz, staged |-> {}]

\* NewBatch of the opensearch backend: the same check; the operations slice of
\* the operator it returns is the zero value
OSNewBatch(sz) ==
    IF sz <= 0
    THEN [err |-> TRUE, made |-> FALSE, size |-> 0, staged |-> <<>>]
    ELSE [err |-> FALSE, made |-> TRUE, size |-> sz, staged |-> <<>>]

\* the sizes a batch operator is asked for
NewBatchSizes == (0 - 1)..MaxSize

\* a caller holds an operator: size is the size of the operator, 0 while
\* NewBatch has returned none
HasOperator == size # 0

\* before the first NewBatch
InitBatch ==
    /\ backend \in {"bleve", "opensearch"}
    /\ index = Canon
    /\ batch = {}
    /\ operations = <<>>
    /\ size = 0
    /\ last = NoLast
    /\ searchRes = NoSearch
    /\ nCalls = 0
    /\ DebInit
    /\ EvIdle
    /\ SvcIdle
    /\ ConIdle

BatchDone(op, r) ==
    /\ HasOperator
    /\ index' = r.idx
    /\ IF backend = "bleve"
       THEN batch' = r.staged /\ UNCHANGED operations
       ELSE operations' = r.staged /\ UNCHANGED batch
    /\ last' = [op |-> op, target |-> "batch", stageErr |-> r.stageErr,
                nStaged |-> StagedCount(backend, r.stage), stagedOps |-> r.stage,
                err |-> r.err, pushed |-> r.pushed, calls |-> r.calls, arg |-> 0]
    /\ UNCHANGED <<backend, size, searchRes>>
    /\ UNCHANGED debVars
    /\ UNCHANGED <<evVars, svcVars, conVars>>

\* a caller without an operator asks for one
BatchNew ==
    /\ ~HasOperator
    /\ \E sz \in NewBatchSizes :
          LET r == IF backend = "bleve" THEN BleveNewBatch(sz) ELSE OSNewBatch(sz)
          IN  /\ size' = (IF r.made THEN r.size ELSE 0)
              /\ IF backend = "bleve"
                 THEN batch' = r.staged /\ UNCHANGED operations
                 ELSE operations' = r.staged /\ UNCHANGED batch
              /\ last' = [NoLast EXCEPT !.op = "NewBatch", !.target = "batch",
                                        !.err = r.err, !.arg = sz]
    /\ UNCHANGED <<backend, index, searchRes, nCalls>>
    /\ UNCHANGED debVars
    /\ UNCHANGED <<evVars, svcVars, conVars>>

\* the resources a Batch is asked to upsert: the canonical ones, and the file
\* below the folder as a hidden resource
BatchUpsertResources ==
    {d \in Canon : d.ID \in BatchUpsertIDs} \cup {[CanonOf("d2") EXCEPT !.Hidden = TRUE]}

BatchUpsert ==
    /\ nCalls < MaxCalls
    /\ nCalls' = nCalls + 1
    /\ \E r \in BatchUpsertResources, failAt \in FailAts :
          BatchDone("Upsert", BatchUpsertResult(backend, index, batch, operations, size,
                                                r.ID, r, failAt))

BatchMove ==
    /\ nCalls < MaxCalls
    /\ nCalls' = nCalls + 1
    /\ \E id \in BatchIDs, parentID \in ParentIDs, location \in BatchLocations,
          failAt \in FailAts :
          BatchDone("Move", BatchMoveResult(backend, index, batch, operations, size,
                                            id, parentID, location, failAt))

BatchDelete ==
    /\ nCalls < MaxCalls
    /\ nCalls' = nCalls + 1
    /\ \E id \in BatchIDs, failAt \in FailAts :
          BatchDone("Delete", BatchDeleteResult(backend, index, batch, operations, size,
                                                id, failAt))

BatchRestore ==
    /\ nCalls < MaxCalls
    /\ nCalls' = nCalls + 1
    /\ \E id \in BatchIDs, failAt \in FailAts :
          BatchDone("Restore", BatchRestoreResult(backend, index, batch, operations, size,
                                                  id, failAt))

BatchPurge ==
    /\ nCalls < MaxCalls
    /\ nCalls' = nCalls + 1
    /\ \E id \in BatchIDs, onlyDeleted \in BOOLEAN, failAt \in FailAts :
          BatchDone("Purge", BatchPurgeResult(backend, index, batch, operations, size,
                                              id, onlyDeleted, failAt))

BatchPush ==
    /\ UNCHANGED nCalls
    /\ \E failAt \in FailAts :
          BatchDone("Push", BatchPushResult(backend, index, batch, operations, failAt))

NextBatch ==
    \/ BatchNew
    \/ BatchUpsert
    \/ BatchMove
    \/ BatchDelete
    \/ BatchRestore
    \/ BatchPurge
    \/ BatchPush

SpecBatch == InitBatch /\ [][NextBatch]_vars

(***************************************************************************)
(* The space debouncer at work.  Time is a clock of ticks; a timer that is *)
(* due fires before the clock moves on.                                    *)
(***************************************************************************)
InitDeb ==
    /\ backend = "bleve"
    /\ index = {}
    /\ batch = {}
    /\ operations = <<>>
    /\ size = defaultBatchSize
    /\ last = NoLast
    /\ searchRes = NoSearch
    /\ nCalls = 0
    /\ DebInit
    /\ EvIdle
    /\ SvcIdle
    /\ ConIdle

\* a debouncer without the ceiling
DueTimerOnly(d) == d.timer = 0

\* the timer fired, or the ceiling is reached
Due(d) == d.timer = 0 \/ d.ceiling = 0

\* the count of the triggers of a space after one more
NextTrigger(t) ==
    IF ~t.counted THEN Uncounted
    ELSE IF t.n = 0 THEN [counted |-> TRUE, n |-> 1, sinceLast |-> 0, sinceFirst |-> 0]
    ELSE IF t.n < MaxTriggers /\ t.sinceLast < DebounceAfter /\ t.sinceFirst < MaxWait
         THEN [t EXCEPT !.n = t.n + 1, !.sinceLast = 0]
    ELSE Uncounted

\* a Debounce that leaves a running timer as it is
DebounceNoRearm(s) ==
    /\ deb[s].state # "firing"
    /\ deb' = [deb EXCEPT ![s] =
                 IF deb[s].state = "idle"
                 THEN [state |-> "pending", timer |-> DebounceAfter, ceiling |-> MaxWait,
                       cbs |-> 1, waited |-> 0]
                 ELSE [deb[s] EXCEPT !.cbs = Sat(deb[s].cbs + 1, MaxTriggers + 1)]]
    /\ trig' = [trig EXCEPT ![s] = NextTrigger(trig[s])]
    /\ IF trig'[s].counted
       THEN UNCHANGED <<acked, reindexes>>
       ELSE /\ acked' = [acked EXCEPT ![s] = 0]
            /\ reindexes' = [reindexes EXCEPT ![s] = 0]
    /\ UNCHANGED idxVars
    /\ UNCHANGED <<evVars, svcVars, conVars>>

\* Debounce(id, ack) while the space is idle or pending
Debounce(s) ==
    /\ deb[s].state # "firing"
    /\ deb' = [deb EXCEPT ![s] =
                 IF deb[s].state = "idle"
                 THEN [state |-> "pending", timer |-> DebounceAfter, ceiling |-> MaxWait,
                       cbs |-> 1, waited |-> 0]
                 ELSE [deb[s] EXCEPT !.timer = DebounceAfter,
                                     !.cbs = Sat(deb[s].cbs + 1, MaxTriggers + 1)]]
    /\ trig' = [trig EXCEPT ![s] = NextTrigger(trig[s])]
    /\ IF trig'[s].counted
       THEN UNCHANGED <<acked, reindexes>>
       ELSE /\ acked' = [acked EXCEPT ![s] = 0]
            /\ reindexes' = [reindexes EXCEPT ![s] = 0]
    /\ UNCHANGED idxVars
    /\ UNCHANGED <<evVars, svcVars, conVars>>

\* the timer fires or the ceiling is reached: the reindex is invoked
FireStart(s) ==
    /\ deb[s].state = "pending"
    /\ Due(deb[s])
    /\ deb' = [deb EXCEPT ![s].state = "firing"]
    /\ reindexes' = [reindexes EXCEPT ![s] = IF trig[s].counted THEN Sat(@ + 1, 2) ELSE 0]
    /\ UNCHANGED <<trig, acked>>
    /\ UNCHANGED idxVars
    /\ UNCHANGED <<evVars, svcVars, conVars>>

\* the reindex returned: every accumulated callback is invoked
FireEnd(s) ==
    /\ deb[s].state = "firing"
    /\ deb' = [deb EXCEPT ![s] = IdleSpace]
    /\ acked' = [acked EXCEPT ![s] = IF trig[s].counted THEN @ + deb[s].cbs ELSE 0]
    /\ UNCHANGED <<trig, reindexes>>
    /\ UNCHANGED idxVars
    /\ UNCHANGED <<evVars, svcVars, conVars>>

\* one tick of the clock
Tick ==
    /\ \A s \in Spaces : deb[s].state = "pending" => ~Due(deb[s])
    /\ deb' = [s \in Spaces |->
                 IF deb[s].state = "pending"
                 THEN [deb[s] EXCEPT !.timer = @ - 1,
                                     !.ceiling = IF @ > 0 THEN @ - 1 ELSE 0,
                                     !.waited = Sat(@ + 1, MaxWait + 1)]
                 ELSE deb[s]]
    /\ trig' = [s \in Spaces |->
                  IF trig[s].counted /\ trig[s].n > 0
                  THEN [trig[s] EXCEPT !.sinceLast = Sat(@ + 1, DebounceAfter),
                                       !.sinceFirst = Sat(@ + 1, MaxWait)]
                  ELSE trig[s]]
    /\ UNCHANGED <<acked, reindexes>>
    /\ UNCHANGED idxVars
    /\ UNCHANGED <<evVars, svcVars, conVars>>

NextDeb ==
    \/ \E s \in Spaces : Debounce(s)
    \/ \E s \in Spaces : FireStart(s)
    \/ \E s \in Spaces : FireEnd(s)
    \/ Tick

\* timers fire and the clock moves on
SpecDeb ==
    /\ InitDeb /\ [][NextDeb]_vars
    /\ WF_vars(Tick)
    /\ \A s \in Spaces : WF_vars(FireStart(s)) /\ WF_vars(FireEnd(s))

(***************************************************************************)
(* The event service: New, Run, Close and processEvent.                    *)
(***************************************************************************)
\* Service.events: the kinds New subscribes to
Events(async) ==
    {"ItemTrashed", "ItemPurged", "ItemRestored", "ItemMoved", "TrashbinPurged",
     "ContainerCreated", "FileTouched", "FileVersionRestored", "TagsAdded",
     "TagsRemoved", "SpaceRenamed"}
    \cup (IF async THEN {"UploadReady"} ELSE {"FileUploaded"})

\* the seq-th event of the stream: an event of the given kind about a node of
\* space s, with the fields the kind has
Event(seq, kind, s) ==
    LET res == [space |-> s, node |-> "n"]
    IN [seq |-> seq, kind |-> kind,
        Ref |-> IF kind \in {"SpaceRenamed", "UploadReady"} THEN NoRes ELSE res,
        FileRef |-> IF kind = "UploadReady" THEN res ELSE NoRes,
        ID |-> IF kind = "SpaceRenamed" THEN [space |-> s, node |-> ""]
               ELSE IF kind = "ItemTrashed" THEN res ELSE NoRes]

getSpaceID(ref) == [space |-> ref.space, node |-> ""]

\* the calls of the Searcher, whose results processEvent does not look at
IndexCalls == {"TrashItem", "PurgeItem", "PurgeDeleted", "MoveItem", "RestoreItem",
               "UpsertItem", "IndexSpace"}

CallOf(name, arg) == [call |-> name, arg |-> arg]

\* a processEvent that forgets the upsert of TagsRemoved
processEventTagsRemovedDebounceOnly(ev) ==
    CASE ev.kind = "ItemTrashed" ->
           <<CallOf("TrashItem", ev.ID), CallOf("Debounce", getSpaceID(ev.Ref))>>
      [] ev.kind = "ItemPurged" ->
           <<CallOf("PurgeItem", ev.Ref), CallOf("Ack", NoRes)>>
      [] ev.kind = "TrashbinPurged" ->
           <<CallOf("PurgeDeleted", getSpaceID(ev.Ref)), CallOf("Ack", NoRes)>>
      [] ev.kind = "ItemMoved" ->
           <<CallOf("MoveItem", ev.Ref), CallOf("Debounce", getSpaceID(ev.Ref))>>
      [] ev.kind = "ItemRestored" ->
           <<CallOf("RestoreItem", ev.Ref), CallOf("Debounce", getSpaceID(ev.Ref))>>
      [] ev.kind = "TagsAdded" ->
           <<CallOf("UpsertItem", ev.Ref), CallOf("Debounce", getSpaceID(ev.Ref))>>
      [] ev.kind = "UploadReady" ->
           <<CallOf("Debounce", getSpaceID(ev.FileRef))>>
      [] ev.kind = "SpaceRenamed" ->
           <<CallOf("Debounce", ev.ID)>>
      [] OTHER -> <<CallOf("Debounce", getSpaceID(ev.Ref))>>

\* a processEvent that acknowledges a purged item and hands it to the
\* debouncer as well
processEventPurgedAlsoDebounced(ev) ==
    CASE ev.kind = "ItemTrashed" ->
           <<CallOf("TrashItem", ev.ID), CallOf("Debounce", getSpaceID(ev.Ref))>>
      [] ev.kind = "ItemPurged" ->
           <<CallOf("PurgeItem", ev.Ref), CallOf("Ack", NoRes),
             CallOf("Debounce", getSpaceID(ev.Ref))>>
      [] ev.kind = "TrashbinPurged" ->
           <<CallOf("PurgeDeleted", getSpaceID(ev.Ref)), CallOf("Ack", NoRes)>>
      [] ev.kind = "ItemMoved" ->
           <<CallOf("MoveItem", ev.Ref), CallOf("Debounce", getSpaceID(ev.Ref))>>
      [] ev.kind = "ItemRestored" ->
           <<CallOf("RestoreItem", ev.Ref), CallOf("Debounce", getSpaceID(ev.Ref))>>
      [] ev.kind \in {"ContainerCreated", "FileTouched", "FileVersionRestored"} ->
           <<CallOf("Debounce", getSpaceID(ev.Ref))>>
      [] ev.kind \in {"TagsAdded", "TagsRemoved"} ->
           <<CallOf("UpsertItem", ev.Ref), CallOf("Debounce", getSpaceID(ev.Ref))>>
      [] ev.kind = "FileUploaded" ->
           <<CallOf("Debounce", getSpaceID(ev.Ref))>>
      [] ev.kind = "UploadReady" ->
           <<CallOf("Debounce", getSpaceID(ev.FileRef))>>
      [] ev.kind = "SpaceRenamed" ->
           <<CallOf("Debounce", ev.ID)>>
      [] OTHER -> <<>>

\* the calls processEvent makes for an event, in order (e.InProgress, which
\* only tells the stream that the event is being worked on, is left out)
processEvent(ev) ==
    CASE ev.kind = "ItemTrashed" ->
           <<CallOf("TrashItem", ev.ID), CallOf("Debounce", getSpaceID(ev.Ref))>>
      [] ev.kind = "ItemPurged" ->
           <<CallOf("PurgeItem", ev.Ref), CallOf("Ack", NoRes)>>
      [] ev.kind = "TrashbinPurged" ->
           <<CallOf("PurgeDeleted", getSpaceID(ev.Ref)), CallOf("Ack", NoRes)>>
      [] ev.kind = "ItemMoved" ->
           <<CallOf("MoveItem", ev.Ref), CallOf("Debounce", getSpaceID(ev.Ref))>>
      [] ev.kind = "ItemRestored" ->
           <<CallOf("RestoreItem", ev.Ref), CallOf("Debounce", getSpaceID(ev.Ref))>>
      [] ev.kind \in {"ContainerCreated", "FileTouched", "FileVersionRestored"} ->
           <<CallOf("Debounce", getSpaceID(ev.Ref))>>
      [] ev.kind \in {"TagsAdded", "TagsRemoved"} ->
           <<CallOf("UpsertItem", ev.Ref), CallOf("Debounce", getSpaceID(ev.Ref))>>
      [] ev.kind = "FileUploaded" ->
           <<CallOf("Debounce", getSpaceID(ev.Ref))>>
      [] ev.kind = "UploadReady" ->
           <<CallOf("Debounce", getSpaceID(ev.FileRef))>>
      [] ev.kind = "SpaceRenamed" ->
           <<CallOf("Debounce", ev.ID)>>
      [] OTHER -> <<>>

\* an entry of evlog: who made the call (a worker, or 0 for the debouncer),
\* for which event (seq 0: for none in particular), and how the call ended
Logged(by, ev, c, ok) ==
    [by |-> by, seq |-> ev.seq, kind |-> ev.kind, call |-> c.call, arg |-> c.arg, ok |-> ok]

Started(w) == w <= numConsumers => workers[w].pc # "none"

\* Consume returns the channel, or an error with which Run returns
RunConsume ==
    /\ run = "new"
    /\ run' \in {"started", "failed"}
    /\ UNCHANGED <<asyncUploads, numConsumers, chClosed, ch, nSent, workers, ctxDone, stopped,
                   stopCh, closers, evlog, handed>>
    /\ UNCHANGED <<idxVars, debVars, svcVars, conVars>>

\* the loop of Run starts the next worker goroutine
RunSpawn ==
    /\ run = "started"
    /\ \E w \in Workers :
         /\ w <= numConsumers
         /\ workers[w].pc = "none"
         /\ \A v \in Workers : v < w => workers[v].pc # "none"
         /\ workers' = [workers EXCEPT ![w].pc = "select"]
    /\ UNCHANGED <<asyncUploads, numConsumers, chClosed, ch, nSent, run, ctxDone, stopped,
                   stopCh, closers, evlog, handed>>
    /\ UNCHANGED <<idxVars, debVars, svcVars, conVars>>

\* a Run that waits for its workers without cancelling their context
RunStopNoCancel ==
    /\ run = "started"
    /\ \A w \in Workers : Started(w)
    /\ stopCh > 0
    /\ run' = "waiting"
    /\ UNCHANGED <<asyncUploads, numConsumers, chClosed, ch, nSent, workers, ctxDone, stopped,
                   stopCh, closers, evlog, handed>>
    /\ UNCHANGED <<idxVars, debVars, svcVars, conVars>>

\* a Run that goes on to return once its workers are gone
RunStopWhenWorkersGone ==
    /\ run = "started"
    /\ \A w \in Workers : Started(w)
    /\ stopCh > 0 \/ \A w \in Workers : w <= numConsumers => workers[w].pc = "exited"
    /\ ctxDone' = TRUE
    /\ run' = "waiting"
    /\ UNCHANGED <<asyncUploads, numConsumers, chClosed, ch, nSent, workers, stopped,
                   stopCh, closers, evlog, handed>>
    /\ UNCHANGED <<idxVars, debVars, svcVars, conVars>>

\* <-s.stopCh returns once the channel is closed; cancel() follows
RunStop ==
    /\ run = "started"
    /\ \A w \in Workers : Started(w)
    /\ stopCh > 0
    /\ ctxDone' = TRUE
    /\ run' = "waiting"
    /\ UNCHANGED <<asyncUploads, numConsumers, chClosed, ch, nSent, workers, stopped,
                   stopCh, closers, evlog, handed>>
    /\ UNCHANGED <<idxVars, debVars, svcVars, conVars>>

\* wg.Wait() returns when every worker has called wg.Done
RunReturn ==
    /\ run = "waiting"
    /\ \A w \in Workers : w <= numConsumers => workers[w].pc = "exited"
    /\ run' = "returned"
    /\ UNCHANGED <<asyncUploads, numConsumers, chClosed, ch, nSent, workers, ctxDone, stopped,
                   stopCh, closers, evlog, handed>>
    /\ UNCHANGED <<idxVars, debVars, svcVars, conVars>>

\* a Close that closes the channel whatever the flag says
CloseCASUnguarded(c) ==
    /\ closers[c] = "idle"
    /\ stopped' = TRUE
    /\ closers' = [closers EXCEPT ![c] = "won"]
    /\ UNCHANGED <<asyncUploads, numConsumers, chClosed, ch, nSent, workers, run, ctxDone,
                   stopCh, evlog, handed>>
    /\ UNCHANGED <<idxVars, debVars, svcVars, conVars>>

\* Close: s.stopped.CompareAndSwap(false, true)
CloseCAS(c) ==
    /\ closers[c] = "idle"
    /\ stopped' = TRUE
    /\ closers' = [closers EXCEPT ![c] = IF stopped THEN "done" ELSE "won"]
    /\ UNCHANGED <<asyncUploads, numConsumers, chClosed, ch, nSent, workers, run, ctxDone,
                   stopCh, evlog, handed>>
    /\ UNCHANGED <<idxVars, debVars, svcVars, conVars>>

\* Close: close(s.stopCh) by the call that won the swap; closing a closed
\* channel panics, which a count of 2 stands for
CloseChan(c) ==
    /\ closers[c] = "won"
    /\ stopCh' = Sat(stopCh + 1, 2)
    /\ closers' = [closers EXCEPT ![c] = "done"]
    /\ UNCHANGED <<asyncUploads, numConsumers, chClosed, ch, nSent, workers, run, ctxDone,
                   stopped, evlog, handed>>
    /\ UNCHANGED <<idxVars, debVars, svcVars, conVars>>

\* the stream puts its next event on the channel
Deliver(kind, s) ==
    /\ run \in {"started", "waiting", "returned"}
    /\ ~chClosed
    /\ nSent < MaxEvents
    /\ nSent' = nSent + 1
    /\ ch' = Append(ch, Event(nSent + 1, kind, s))
    /\ UNCHANGED <<asyncUploads, numConsumers, chClosed, workers, run, ctxDone, stopped,
                   stopCh, closers, evlog, handed>>
    /\ UNCHANGED <<idxVars, debVars, svcVars, conVars>>

\* a receive that leaves the event in the channel
WorkerRecvPeek(w) ==
    /\ workers[w].pc = "select"
    /\ ch # <<>>
    /\ workers' = [workers EXCEPT ![w] = [pc |-> "proc", ev |-> Head(ch), step |-> 1]]
    /\ UNCHANGED <<asyncUploads, numConsumers, chClosed, ch, nSent, run, ctxDone, stopped,
                   stopCh, closers, evlog, handed>>
    /\ UNCHANGED <<idxVars, debVars, svcVars, conVars>>

\* the select of a worker takes the case e, ok := <-ch.  Go chooses among
\* the cases that can proceed at random, so a cancelled context does not
\* keep the worker from this case
WorkerRecv(w) ==
    /\ workers[w].pc = "select"
    /\ ch # <<>>
    /\ workers' = [workers EXCEPT ![w] = [pc |-> "proc", ev |-> Head(ch), step |-> 1]]
    /\ ch' = Tail(ch)
    /\ UNCHANGED <<asyncUploads, numConsumers, chClosed, nSent, run, ctxDone, stopped,
                   stopCh, closers, evlog, handed>>
    /\ UNCHANGED <<idxVars, debVars, svcVars, conVars>>

\* the select of a worker takes the case <-ctx.Done(): the worker returns
WorkerDone(w) ==
    /\ workers[w].pc = "select"
    /\ ctxDone
    /\ workers' = [workers EXCEPT ![w].pc = "exited"]
    /\ UNCHANGED <<asyncUploads, numConsumers, chClosed, ch, nSent, run, ctxDone, stopped,
                   stopCh, closers, evlog, handed>>
    /\ UNCHANGED <<idxVars, debVars, svcVars, conVars>>

\* the select of a worker takes the case e, ok := <-ch on a channel that is
\* closed and empty: ok is false and the worker returns
WorkerClosed(w) ==
    /\ workers[w].pc = "select"
    /\ chClosed /\ ch = <<>>
    /\ workers' = [workers EXCEPT ![w].pc = "exited"]
    /\ UNCHANGED <<asyncUploads, numConsumers, chClosed, ch, nSent, run, ctxDone, stopped,
                   stopCh, closers, evlog, handed>>
    /\ UNCHANGED <<idxVars, debVars, svcVars, conVars>>

\* the stream closes the channel it gave to Run
StreamClose ==
    /\ run \in {"started", "waiting", "returned"}
    /\ ~chClosed
    /\ chClosed' = TRUE
    /\ UNCHANGED <<asyncUploads, numConsumers, ch, nSent, workers, run, ctxDone, stopped,
                   stopCh, closers, evlog, handed>>
    /\ UNCHANGED <<idxVars, debVars, svcVars, conVars>>

\* the context given to New is cancelled, and with it the context Run derives
\* from it for its workers
ParentCancel ==
    /\ ~ctxDone
    /\ ctxDone' = TRUE
    /\ UNCHANGED <<asyncUploads, numConsumers, chClosed, ch, nSent, workers, run, stopped,
                   stopCh, closers, evlog, handed>>
    /\ UNCHANGED <<idxVars, debVars, svcVars, conVars>>

\* a processEvent that returns when a call on the index fails
WorkerCallStopsOnError(w) ==
    /\ workers[w].pc = "proc"
    /\ LET ev == workers[w].ev
           cs == processEvent(ev)
           c == cs[workers[w].step]
       IN \E ok \in (IF c.call \in IndexCalls THEN BOOLEAN ELSE {TRUE}) :
            /\ evlog' = Append(evlog, Logged(w, ev, c, ok))
            /\ handed' = IF c.call = "Debounce"
                         THEN [handed EXCEPT ![c.arg.space] = @ \cup {ev.seq}]
                         ELSE handed
            /\ workers' = [workers EXCEPT ![w] =
                             IF workers[w].step = Len(cs) \/ ~ok
                             THEN [NoWorker EXCEPT !.pc = "select"]
                             ELSE [@ EXCEPT !.step = @ + 1]]
    /\ UNCHANGED <<asyncUploads, numConsumers, chClosed, ch, nSent, run, ctxDone, stopped,
                   stopCh, closers>>
    /\ UNCHANGED <<idxVars, debVars, svcVars, conVars>>

\* the worker makes the next call of processEvent; after the last one
\* processEvent returns nil and the worker is back at its select
WorkerCall(w) ==
    /\ workers[w].pc = "proc"
    /\ LET ev == workers[w].ev
           cs == processEvent(ev)
           c == cs[workers[w].step]
       IN /\ \E ok \in (IF c.call \in IndexCalls THEN BOOLEAN ELSE {TRUE}) :
                evlog' = Append(evlog, Logged(w, ev, c, ok))
          /\ handed' = IF c.call = "Debounce"
                       THEN [handed EXCEPT ![c.arg.space] = @ \cup {ev.seq}]
                       ELSE handed
          /\ workers' = [workers EXCEPT ![w] =
                           IF workers[w].step = Len(cs) THEN [NoWorker EXCEPT !.pc = "select"]
                           ELSE [@ EXCEPT !.step = @ + 1]]
    /\ UNCHANGED <<asyncUploads, numConsumers, chClosed, ch, nSent, run, ctxDone, stopped,
                   stopCh, closers>>
    /\ UNCHANGED <<idxVars, debVars, svcVars, conVars>>

\* the Ack of every event of the set, lowest first
RECURSIVE AckAll(_)
AckAll(S) ==
    IF S = {} THEN <<>>
    ELSE LET m == CHOOSE x \in S : \A y \in S : x <= y
         IN <<Logged(0, [NoEvent EXCEPT !.seq = m], CallOf("Ack", NoRes), TRUE)>>
            \o AckAll(S \ {m})

\* the debouncer fires for a space: the function New gave it calls
\* IndexSpace once, then every callback it holds for the space is invoked.
\* The function only logs an error of IndexSpace, which is not followed here
Reindex(s) ==
    /\ handed[s] # {}
    /\ evlog' = Append(evlog, Logged(0, NoEvent,
                                     CallOf("IndexSpace", [space |-> s, node |-> ""]), TRUE))
                \o AckAll(handed[s])
    /\ handed' = [handed EXCEPT ![s] = {}]
    /\ UNCHANGED <<asyncUploads, numConsumers, chClosed, ch, nSent, workers, run, ctxDone,
                   stopped, stopCh, closers>>
    /\ UNCHANGED <<idxVars, debVars, svcVars, conVars>>

\* the service handling events of every kind with one worker, as
\* service_test.go sets it up; the events of the stream are about the two
\* spaces in turn
StreamSpace(seq) == IF seq % 2 = 1 THEN "r1" ELSE "r2"

InitEvent ==
    /\ backend = "bleve"
    /\ index = {}
    /\ batch = {}
    /\ operations = <<>>
    /\ size = defaultBatchSize
    /\ last = NoLast
    /\ searchRes = NoSearch
    /\ nCalls = 0
    /\ DebInit
    /\ asyncUploads \in BOOLEAN
    /\ numConsumers = 1
    /\ EvNew
    /\ SvcIdle
    /\ ConIdle

NextEvent ==
    \/ RunConsume
    \/ RunSpawn
    \/ \E kind \in Events(asyncUploads) : Deliver(kind, StreamSpace(nSent + 1))
    \/ \E w \in Workers : WorkerRecv(w)
    \/ \E w \in Workers : WorkerCall(w)
    \/ \E s \in Spaces : Reindex(s)

SpecEvent == InitEvent /\ [][NextEvent]_vars

\* the service started and stopped with one or more workers, on a stream of
\* events of this kind about one space, which the debouncer reindexes
RunKinds == {"FileTouched"}
RunSpaces == {"r1"}

InitRun ==
    /\ backend = "bleve"
    /\ index = {}
    /\ batch = {}
    /\ operations = <<>>
    /\ size = defaultBatchSize
    /\ last = NoLast
    /\ searchRes = NoSearch
    /\ nCalls = 0
    /\ DebInit
    /\ asyncUploads = FALSE
    /\ numConsumers \in 1..MaxConsumers
    /\ EvNew
    /\ SvcIdle
    /\ ConIdle

NextRun ==
    \/ RunConsume
    \/ RunSpawn
    \/ RunStop
    \/ RunReturn
    \/ \E c \in Closers : CloseCAS(c)
    \/ \E c \in Closers : CloseChan(c)
    \/ \E kind \in RunKinds, s \in RunSpaces : Deliver(kind, s)
    \/ \E w \in Workers : WorkerRecv(w)
    \/ \E w \in Workers : WorkerDone(w)
    \/ \E w \in Workers : WorkerCall(w)
    \/ \E s \in RunSpaces : Reindex(s)

\* every goroutine that can take a step takes one; a select that is entered
\* again and again with the context cancelled takes that case at some point
SpecRun ==
    /\ InitRun /\ [][NextRun]_vars
    /\ WF_vars(RunConsume) /\ WF_vars(RunSpawn) /\ WF_vars(RunStop) /\ WF_vars(RunReturn)
    /\ \A c \in Closers : WF_vars(CloseChan(c))
    /\ \A w \in Workers : WF_vars(WorkerCall(w)) /\ SF_vars(WorkerDone(w))

(***************************************************************************)
(* Claims on the engines (specification Spec).                             *)
(***************************************************************************)
Has(idx, id) == \E d \in idx : d.ID = id
DocOf(idx, id) == CHOOSE d \in idx : d.ID = id

\* the descendants of c in the sense of the data model: the documents of c's
\* space whose path is c's path, a separator, and more
Descendants(idx, c) ==
    {d \in idx : d.ID # c.ID /\ d.RootID = c.RootID /\ HasPrefix(d.Path, c.Path \o <<"/">>)}

MoveCascades(be) ==
    \A id \in IDs, parentID \in ParentIDs, location \in Locations :
        LET r == EngineMoveResult(be, index, id, parentID, location, 0)
        IN (Has(index, id) /\ DocOf(index, id).Type = Container /\ ~r.err) =>
            LET c == DocOf(index, id)
                desc == Descendants(index, c)
                newPath == DocOf(r.idx, id).Path
            IN /\ \A d \in desc :
                    /\ Has(r.idx, d.ID)
                    /\ DocOf(r.idx, d.ID).Path
                         = newPath \o SubSeq(d.Path, Len(c.Path) + 1, Len(d.Path))
               /\ \A d \in index \ ({c} \cup desc) :
                    Has(r.idx, d.ID) /\ DocOf(r.idx, d.ID).Path = d.Path

\* C2: after Move(C, parentID, location) of a container C, on either backend,
\* the path of every descendant of C is its old path with C's old path replaced
\* by C's new path at the front and the rest untouched, and the path of every
\* document that is neither C nor a descendant of C is unchanged.
C2_MoveCascade == MoveCascades(backend)

\* C2 on the embedded backend alone
C2_MoveCascadeEmbedded == MoveCascades("bleve")

DeleteRestoreCascades(be) ==
    \A id \in IDs :
        LET r == EngineDeleteResult(be, index, id, 0)
        IN (Has(index, id) /\ ~r.err) =>
            LET c == DocOf(index, id)
                isDir == c.Type = Container
                family == {x.ID : x \in {c} \cup Descendants(index, c)}
                r2 == EngineRestoreResult(be, r.idx, id, 0)
            IN /\ IF isDir
                  THEN \A d \in r.idx : d.ID \in family => d.Deleted
                  ELSE r.idx = (index \ {c}) \cup {[c EXCEPT !.Deleted = TRUE]}
               /\ ~r2.err =>
                    IF isDir
                    THEN \A d \in r2.idx : d.ID \in family => ~d.Deleted
                    ELSE r2.idx = (index \ {c}) \cup {[c EXCEPT !.Deleted = FALSE]}

\* C3: after Delete(C) returns nil, C and every descendant of C have
\* Deleted = true, and after a following Restore(C) returns nil they have
\* Deleted = false; for a non-container resource only that resource's flag
\* changes.
C3_DeleteRestoreCascade == DeleteRestoreCascades(backend)

\* C3 on the embedded backend alone
C3_DeleteRestoreCascadeEmbedded == DeleteRestoreCascades("bleve")

PurgeFilters(be) ==
    \A id \in IDs, onlyDeleted \in BOOLEAN :
        LET r == EnginePurgeResult(be, index, id, onlyDeleted, 0)
        IN Has(index, id) =>
            LET c == DocOf(index, id)
                members == {c} \cup (IF c.Type = Container THEN Descendants(index, c) ELSE {})
                qualifying == IF onlyDeleted THEN {d \in members : d.Deleted} ELSE members
            IN /\ ~r.err => r.idx = index \ qualifying
               /\ qualifying = {} => (~r.err /\ r.idx = index)

\* C4: Purge(C, onlyDeleted=true) removes exactly the members of {C, D1..Dn}
\* whose Deleted flag is true and leaves the others in place;
\* Purge(C, onlyDeleted=false) removes all of {C, D1..Dn}; when C exists but no
\* member qualifies, Purge returns nil and the index is unchanged.
C4_PurgeFilter == PurgeFilters(backend)

\* C4 on the embedded backend alone
C4_PurgeFilterEmbedded == PurgeFilters("bleve")

\* C5: Search never returns a match for a document whose stored Deleted flag is
\* true, whatever the query, the scope reference and the page size.
C5_SearchSkipsDeleted ==
    \A m \in searchRes.matches : \A d \in index : d.ID = m.ID => ~d.Deleted

\* C5's case: a Search whose query matches a deleted document returned matches
C5_Witness ==
    /\ last.op = "Search"
    /\ searchRes.matches # {}
    /\ \E d \in index : d.Deleted /\ d.ID \in searchRes.q

(***************************************************************************)
(* Claims on a Batch (specification SpecBatch).                            *)
(***************************************************************************)
\* the staged positions the calls carry, in the order the calls were issued
RECURSIVE FlatPos(_)
FlatPos(calls) == IF calls = <<>> THEN <<>> ELSE Head(calls).pos \o FlatPos(Tail(calls))

\* the calls of a clustered Push are grouped as Push groups them: a bulk
\* request holds a maximal run of upserts, a query-addressed call one entry
\* that is not an upsert, and every call but the last succeeded
WellGrouped(ops, calls) ==
    \A j \in 1..Len(calls) :
        LET c == calls[j]
        IN /\ c.k \in {"bulk", "query"}
           /\ c.pos # <<>>
           /\ j < Len(calls) => c.ok
           /\ c.k = "bulk" =>
                /\ \A i \in 1..Len(c.pos) : ops[c.pos[i]].k = "upsert"
                /\ Head(c.pos) = 1 \/ ops[Head(c.pos) - 1].k # "upsert"
                /\ LET e == c.pos[Len(c.pos)]
                   IN e = Len(ops) \/ ops[e + 1].k # "upsert"
           /\ c.k = "query" => (Len(c.pos) = 1 /\ ops[c.pos[1]].k # "upsert")

\* C1, as amended: a Push on a clustered Batch issues its calls in staged
\* order, a maximal run of upserts as one bulk request and every other entry
\* as one query-addressed call, each call after the previous one returned; the
\* calls cover the staged entries 1..k in order, each once; when no call
\* fails k is the number of staged entries, so the trailing bulk run is
\* flushed; when a call fails it is the last call and Push returns the error.
C1_PushOrder ==
    (backend = "opensearch" /\ last.pushed) =>
        LET ops == last.stagedOps
            calls == last.calls
            flat == FlatPos(calls)
        IN /\ Len(flat) <= Len(ops)
           /\ flat = [i \in 1..Len(flat) |-> i]
           /\ WellGrouped(ops, calls)
           /\ last.err = (calls # <<>> /\ ~calls[Len(calls)].ok)
           /\ ~last.err => Len(flat) = Len(ops)

\* C1's case: upserts, a query-addressed entry and an upsert were pushed as a
\* bulk request, a query-addressed call and a trailing bulk request
C1_Witness ==
    /\ backend = "opensearch"
    /\ last.pushed /\ ~last.err
    /\ Len(last.calls) = 3
    /\ last.calls[1].k = "bulk" /\ last.calls[2].k = "query" /\ last.calls[3].k = "bulk"

\* C1 as stated: for any staged sequence every staged entry is sent, every
\* query-addressed operation runs, and the trailing bulk run is flushed
C1_EveryEntrySent ==
    (backend = "opensearch" /\ last.pushed) =>
        /\ FlatPos(last.calls) = [i \in 1..Len(last.stagedOps) |-> i]
        /\ \A j \in 1..Len(last.calls) : last.calls[j].ok

\* C6: after Push returns, with nil or with an error, the Batch holds no
\* staged entries, on either backend.
C6_PushLeavesNothingStaged ==
    last.pushed => (batch = {} /\ operations = <<>>)

\* C7: a staging call on a Batch first performs its staging step; if that
\* fails the call returns the error without a Push; if it succeeds and the
\* number of staged entries is then >= size, Push runs on what is staged,
\* the new entry included, before the call returns; if the number is < size
\* the call returns nil, issues no index write and keeps what is staged.
C7_SizeLimit ==
    [][ (last'.target = "batch" /\ last'.op # "Push" /\ nCalls' = nCalls + 1) =>
          LET l == last'
              staged == IF backend = "bleve" THEN batch' ELSE operations'
          IN /\ l.stageErr =>
                  (l.err /\ ~l.pushed /\ l.calls = <<>> /\ index' = index)
             /\ (~l.stageErr /\ l.nStaged >= size) =>
                  /\ l.pushed
                  /\ (backend = "bleve" /\ ~l.err) => index' = IndexBatch(index, l.stagedOps)
                  /\ backend = "opensearch" =>
                       /\ SubSeq(l.stagedOps, 1, Len(operations)) = operations
                       /\ Len(l.stagedOps) = Len(operations) + 1
                       /\ ~l.err => FlatPos(l.calls) = [i \in 1..Len(l.stagedOps) |-> i]
             /\ (~l.stageErr /\ l.nStaged < size) =>
                  /\ ~l.pushed /\ ~l.err /\ l.calls = <<>>
                  /\ index' = index
                  /\ staged = l.stagedOps ]_vars

\* C7's case: a staging call brought the staged entries from below the
\* threshold up to it, and Push ran
C7_Witness ==
    /\ last.target = "batch" /\ last.op \in {"Upsert", "Move", "Delete", "Restore", "Purge"}
    /\ size > 1
    /\ ~last.stageErr /\ last.nStaged = size
    /\ last.pushed /\ ~last.err

(***************************************************************************)
(* Claims on the space debouncer (specification SpecDeb).                  *)
(***************************************************************************)
\* C8: N >= 1 triggers for one space, each less than the debounce window
\* after the previous one and all within the maximum-wait ceiling, produce
\* exactly one reindex call for the space and exactly N invocations of the
\* callbacks: none of either while the space is pending, the one reindex and
\* no callback yet while it is firing, and both once it is idle again.
C8_Coalescing ==
    \A s \in Spaces :
        (trig[s].counted /\ trig[s].n >= 1) =>
            /\ deb[s].state = "pending" => (reindexes[s] = 0 /\ acked[s] = 0)
            /\ deb[s].state = "firing" => (reindexes[s] = 1 /\ acked[s] = 0)
            /\ deb[s].state = "idle" => (reindexes[s] = 1 /\ acked[s] = trig[s].n)

\* C8's case: a burst of several triggers that lasted longer than the debounce
\* window has been reindexed and acknowledged
C8_Witness ==
    \E s \in Spaces :
        /\ trig[s].counted /\ trig[s].n = MaxTriggers
        /\ deb[s].state = "idle"
        /\ acked[s] = MaxTriggers
        /\ trig[s].sinceFirst > DebounceAfter

\* C10: while triggers for a space keep arriving before the debounce timer
\* expires, the space is pending for no longer than the maximum-wait ceiling
\* since the first trigger of the burst, and a pending space always gets to the
\* reindex and then to the invocation of its callbacks.
C10_Ceiling ==
    /\ [](\A s \in Spaces : deb[s].state = "pending" => deb[s].waited <= MaxWait)
    /\ \A s \in Spaces : (deb[s].state = "pending") ~> (deb[s].state = "firing")
    /\ \A s \in Spaces : (deb[s].state = "firing") ~> (deb[s].state = "idle")

\* C10's case: the reindex began because the ceiling was reached, the debounce
\* timer still running
C10_Witness ==
    \E s \in Spaces :
        /\ deb[s].state = "firing"
        /\ deb[s].waited = MaxWait
        /\ deb[s].timer > 0

(***************************************************************************)
(* Claims on the event service (specifications SpecEvent and SpecRun).     *)
(***************************************************************************)
PurgeKinds == {"ItemPurged", "TrashbinPurged"}
LogPos == DOMAIN evlog
\* the positions of the calls a worker made for event n
WorkerPos(n) == {i \in LogPos : evlog[i].seq = n /\ evlog[i].by > 0}
Handled(n) == WorkerPos(n) # {}
KindOf(n) == evlog[CHOOSE i \in WorkerPos(n) : TRUE].kind
\* no worker is inside processEvent for event n
Finished(n) == Handled(n) /\ \A w \in Workers : workers[w].ev.seq # n
AckPos(n) == {i \in LogPos : evlog[i].seq = n /\ evlog[i].call = "Ack"}
\* i is the call a worker made just before its call at position k
PrevCall(i, k) ==
    /\ i < k
    /\ evlog[i].by = evlog[k].by
    /\ \A j \in LogPos : (i < j /\ j < k) => evlog[j].by # evlog[k].by

\* C11: an ItemPurged or TrashbinPurged event is acknowledged exactly once,
\* by the worker, as the call right after the purge call and whether or not
\* that call succeeded.  An event of any other kind is never acknowledged by
\* the worker: once processEvent is over its Ack is with the debouncer,
\* whether or not the direct mutation succeeded, and it is invoked at most
\* once, after an IndexSpace call for the space that came after the Debounce.
C11_Acknowledgment ==
    \A n \in 1..MaxEvents :
      Handled(n) =>
        /\ Cardinality(AckPos(n)) <= 1
        /\ IF KindOf(n) \in PurgeKinds
           THEN /\ \A k \in AckPos(n) :
                     /\ evlog[k].by > 0
                     /\ \E i \in WorkerPos(n) :
                          PrevCall(i, k) /\ evlog[i].call \in {"PurgeItem", "PurgeDeleted"}
                /\ Finished(n) => AckPos(n) # {}
           ELSE /\ \A k \in AckPos(n) :
                     /\ evlog[k].by = 0
                     /\ \E i \in WorkerPos(n), j \in LogPos :
                          /\ i < j /\ j < k
                          /\ evlog[i].call = "Debounce"
                          /\ evlog[j].call = "IndexSpace" /\ evlog[j].by = 0
                          /\ evlog[j].arg = evlog[i].arg
                /\ Finished(n) =>
                     \E i \in WorkerPos(n) :
                       /\ evlog[i].call = "Debounce"
                       /\ (AckPos(n) = {}) = (n \in handed[evlog[i].arg.space])

\* a purge that failed and a trash call that failed, both acknowledged: the
\* first by the worker, the second by the debouncer
C11_Witness ==
    \E i, j \in LogPos :
      /\ evlog[i].call = "PurgeItem" /\ ~evlog[i].ok
      /\ \E k \in AckPos(evlog[i].seq) : evlog[k].by > 0
      /\ evlog[j].call = "TrashItem" /\ ~evlog[j].ok
      /\ \E k \in AckPos(evlog[j].seq) : evlog[k].by = 0

\* the dispatch table: the calls on the index and on the debouncer by kind
Table(kind) ==
    CASE kind = "ItemTrashed" -> <<"TrashItem", "Debounce">>
      [] kind = "ItemMoved" -> <<"MoveItem", "Debounce">>
      [] kind = "ItemRestored" -> <<"RestoreItem", "Debounce">>
      [] kind \in {"TagsAdded", "TagsRemoved"} -> <<"UpsertItem", "Debounce">>
      [] kind \in {"ContainerCreated", "FileTouched", "FileVersionRestored",
                   "FileUploaded", "UploadReady", "SpaceRenamed"} -> <<"Debounce">>
      [] kind = "ItemPurged" -> <<"PurgeItem">>
      [] kind = "TrashbinPurged" -> <<"PurgeDeleted">>

IsTableCall(e) == e.by > 0 /\ e.call # "Ack"
\* the calls a worker made for event n on the index and on the debouncer
TableCalls(n) == SelectSeq(evlog, LAMBDA e : e.seq = n /\ IsTableCall(e))

\* C12: for an event of each kind processEvent makes the calls of the
\* dispatch table, in the table's order and no others; every Debounce is
\* keyed by the space of the event, for SpaceRenamed the space that is the
\* event's ID; and the debouncer calls IndexSpace once per reindex: each
\* IndexSpace call opens the run of callbacks of one reindex.
C12_Dispatch ==
    /\ \A n \in 1..MaxEvents :
         Handled(n) =>
           LET made == TableCalls(n)
               want == Table(KindOf(n))
           IN /\ Len(made) <= Len(want)
              /\ \A i \in 1..Len(made) :
                   /\ made[i].call = want[i]
                   /\ made[i].call = "Debounce" =>
                        made[i].arg = [space |-> StreamSpace(n), node |-> ""]
              /\ Finished(n) => Len(made) = Len(want)
    /\ \A j \in LogPos :
         evlog[j].by = 0 =>
           IF evlog[j].call = "IndexSpace"
           THEN j < Len(evlog) /\ evlog[j + 1].by = 0 /\ evlog[j + 1].call = "Ack"
           ELSE j > 1 /\ evlog[j - 1].by = 0

\* a TagsRemoved event about r1 that was upserted, debounced and reindexed,
\* and a SpaceRenamed event of r2 that was debounced
C12_Witness ==
    /\ Finished(1) /\ Finished(2)
    /\ KindOf(1) = "TagsRemoved" /\ KindOf(2) = "SpaceRenamed"
    /\ \E j \in LogPos : evlog[j].call = "IndexSpace" /\ evlog[j].arg.space = "r1"
    /\ 2 \in handed["r2"]

\* the Close calls that have returned
ClosesDone == {c \in Closers : closers[c] = "done"}
\* Close call c takes a step
CloseStep(c) == closers'[c] # closers[c]

\* C13: however many Close calls are made, one after the other or at the
\* same time, before Run or while it runs, the stop channel is closed once
\* and never a second time (which would panic): it is closed when a Close
\* call has returned and no other is about to close it, and a Close call
\* that finds the service stopped changes nothing.
C13_CloseIdempotent ==
    /\ [](/\ stopCh <= 1
          /\ stopCh + Cardinality({c \in Closers : closers[c] = "won"})
               = (IF stopped THEN 1 ELSE 0))
    /\ [][\A c \in Closers :
            (CloseStep(c) /\ stopped) =>
              /\ closers[c] = "idle" => closers'[c] = "done"
              /\ UNCHANGED <<stopped, ctxDone, run, workers, ch, evlog, handed>>
              /\ closers[c] = "idle" => stopCh' = stopCh]_vars

\* two Close calls at the same time: one has returned without closing the
\* channel while the other, which won the swap, has not closed it yet
C13_Witness ==
    \E c, d \in Closers : closers[c] = "won" /\ closers[d] = "done" /\ stopCh = 0

CloseCalled == \E c \in Closers : closers[c] # "idle"
\* Run has returned, with nil or with the error of Consume
RunOver == run \in {"returned", "failed"}

\* C14: when Run has returned every worker it started has exited, and once
\* a Close call was made Run returns at some point.
C14_RunReturns ==
    /\ [](RunOver =>
            \A w \in Workers :
              IF run = "returned" /\ w <= numConsumers
              THEN workers[w].pc = "exited"
              ELSE workers[w].pc = "none")
    /\ (CloseCalled ~> RunOver)

\* Run has returned after two workers handled events and exited
C14_Witness ==
    /\ run = "returned"
    /\ numConsumers = 2
    /\ nSent = MaxEvents
    /\ \E i, j \in LogPos : evlog[i].by = 1 /\ evlog[j].by = 2
    /\ CloseCalled

\* worker w takes an event from the channel
Pulls(w) == workers[w].pc = "select" /\ workers'[w].pc = "proc"

\* C15: once the context is cancelled no worker takes a further event from
\* the channel, and a worker exits only from its select, with no
\* processEvent call under way.
C15_NoPullAfterCancel ==
    [][/\ ctxDone => \A w \in Workers : ~Pulls(w)
       /\ \A w \in Workers :
            (workers[w].pc # "exited" /\ workers'[w].pc = "exited") =>
              workers[w].pc = "select" /\ workers[w].ev = NoEvent]_vars

\* the second half alone: a worker exits only from its select
C15_ExitsBetweenEvents ==
    [][\A w \in Workers :
         (workers[w].pc # "exited" /\ workers'[w].pc = "exited") =>
           workers[w].pc = "select" /\ workers[w].ev = NoEvent]_vars

\* where event n is: waiting in the channel, with worker w, or done with
Waiting(n) == \E i \in DOMAIN ch : ch[i].seq = n
HeldBy(n) == {w \in Workers : workers[w].ev.seq = n}
\* the calls of the log are in the order of the stream
InStreamOrder(log) == \A i, j \in DOMAIN log : i < j => log[i].seq <= log[j].seq
CallsBy(w) == SelectSeq(evlog, LAMBDA e : e.by = w)
\* the calls the workers made
WorkerCalls == SelectSeq(evlog, LAMBDA e : e.by > 0)

\* C16: an event the stream delivered is waiting in the channel, or with
\* exactly one worker, or was handled, and never two of these; its calls
\* are made by one worker, each of them once; a worker makes the calls of
\* its events in the order it received them, event after event; with one
\* worker the calls of all events are in the order of the stream.
C16_OnceByOneWorker ==
    /\ \A n \in 1..nSent :
         /\ Cardinality(HeldBy(n)) <= 1
         /\ Waiting(n) => HeldBy(n) = {} /\ ~Handled(n)
         /\ ~Waiting(n) => HeldBy(n) # {} \/ Finished(n)
         /\ \A i, j \in WorkerPos(n) :
              /\ evlog[i].by = evlog[j].by
              /\ evlog[i].call = evlog[j].call => i = j
         /\ \A w \in HeldBy(n), i \in WorkerPos(n) : evlog[i].by = w
    /\ \A n \in 1..MaxEvents : n > nSent => ~Waiting(n) /\ ~Handled(n) /\ HeldBy(n) = {}
    /\ \A w \in Workers : InStreamOrder(CallsBy(w))
    /\ numConsumers = 1 => InStreamOrder(WorkerCalls)

\* with two workers a call for the second event was made before a call for
\* the first
C16_Witness ==
    /\ numConsumers = 2
    /\ ~InStreamOrder(WorkerCalls)
    /\ Finished(1) /\ Finished(2)

(***************************************************************************)
(* Further claims on the engines (specification Spec).                     *)
(***************************************************************************)
\* the scope of a reference as the claim words it
WithinScope(d, ref) ==
    LET rel == MakeRelativePath(ref.path)
        hitPath == TrimSuffix(d.Path, <<"/">>)
    IN /\ d.RootID = ref.root
       /\ \/ rel = <<".">>
          \/ hitPath = rel
          \/ HasPrefix(hitPath, rel \o <<"/">>)

ScopedSearch(be) ==
    \A q \in Queries, ref \in Refs \ {NoRef}, pageSize \in PageSizes :
      LET found == {d \in index : ~d.Deleted /\ d.ID \in q}
          matching == IF be = "bleve" THEN BleveQuery(index, q, ref)
                      ELSE OSQuery(index, q, ref)
          sz == IF be = "bleve" THEN BlevePageSize(pageSize) ELSE OSPageSize(pageSize)
      IN \A hits \in Pages(matching, sz) :
           LET res == IF be = "bleve" THEN BleveSearch(index, q, ref, hits)
                      ELSE OSSearch(index, q, ref, hits)
               page == hits \cup (found \ matching)
           IN /\ res.matches \subseteq found
              /\ \A d \in page : d \in res.matches <=> WithinScope(d, ref)
              /\ res.total = Cardinality(matching)
                               - Cardinality({d \in hits : ~WithinScope(d, ref)})

\* C17: a scoped Search returns, of the documents its query finds on the
\* page, exactly those of the scope's root that lie at the scope path (the
\* scope root itself) or below it, or anywhere when the relative scope path
\* is "."; a document whose path merely starts with the same characters is
\* left out; totalCount is the index's total less the hits left out.
C17_ScopeFilter == ScopedSearch(backend)

\* a Search scoped to /a of r1 that found ./a, ./a/b and ./ab: ./a and
\* ./a/b are returned, ./ab is not, and the total is 2
C17_Witness ==
    /\ searchRes.ref # NoRef
    /\ searchRes.ref.path = <<"/", "a">>
    /\ \E d \in index : d.ID = "d3" /\ ~d.Deleted /\ d.Path = <<".", "/", "a", "b">>
    /\ "d3" \in searchRes.q
    /\ {d.Path : d \in searchRes.matches} = {<<".", "/", "a">>, <<".", "/", "a", "/", "b">>}
    /\ searchRes.total = 2

\* what the claim compares of an index: per ID its Path, Name, ParentID and
\* Deleted
Observed(idx) ==
    {[ID |-> d.ID, Path |-> d.Path, Name |-> d.Name, ParentID |-> d.ParentID,
      Deleted |-> d.Deleted] : d \in idx}

SameOutcome(idx, ids) ==
    /\ \A id \in ids, parentID \in ParentIDs, location \in Locations :
         Observed(EngineMoveResult("bleve", idx, id, parentID, location, 0).idx)
           = Observed(EngineMoveResult("opensearch", idx, id, parentID, location, 0).idx)
    /\ \A id \in ids :
         /\ Observed(EngineDeleteResult("bleve", idx, id, 0).idx)
              = Observed(EngineDeleteResult("opensearch", idx, id, 0).idx)
         /\ Observed(EngineRestoreResult("bleve", idx, id, 0).idx)
              = Observed(EngineRestoreResult("opensearch", idx, id, 0).idx)

\* C18: on the same index the same Move, Delete or Restore leaves, on the
\* embedded and on the clustered backend, the same documents with the same
\* Path, Name, ParentID and Deleted.
C18_SameEndState == SameOutcome(index, CallIDs)

\* the staging call on a Batch whose last call ended as s
ThenUpsert(be, s, id) ==
    BatchUpsertResult(be, s.idx, s.staged, s.staged, defaultBatchSize, id, CanonOf(id), 0)
ThenPurge(be, s, id) ==
    BatchPurgeResult(be, s.idx, s.staged, s.staged, defaultBatchSize, id, FALSE, 0)
ThenPush(be, s) == BatchPushResult(be, s.idx, s.staged, s.staged, 0)
NewBatch(be, idx) == Result(FALSE, idx, IF be = "bleve" THEN {} ELSE <<>>, FALSE, <<>>)

\* the outcomes of Upsert(A), Upsert(B), Purge(B, false), Upsert(C), Push on
\* one new Batch
UpsertPurgeUpsert(be, idx, A, B, C) ==
    Eval({ Eval({ Eval({ Eval({ Eval({ [purge |-> s3, end |-> s5]
             : s5 \in {ThenPush(be, s4)} })
             : s4 \in {ThenUpsert(be, s3, C)} })
             : s3 \in {ThenPurge(be, s2, B)} })
             : s2 \in {ThenUpsert(be, s1, B)} })
             : s1 \in {ThenUpsert(be, NewBatch(be, idx), A)} })

\* C19: with A, B and C not in the index, Upsert(A), Upsert(B),
\* Purge(B, false), Upsert(C) on one Batch and then Push leave A and C in
\* the index and B out of it.
C19_PurgeSeesStaged ==
    \A A, B, C \in IDs :
      (/\ A # B /\ B # C /\ A # C
       /\ ~Has(index, A) /\ ~Has(index, B) /\ ~Has(index, C)) =>
        \A r \in {UpsertPurgeUpsert(backend, index, A, B, C)} :
          /\ ~r.end.err
          /\ Has(r.end.idx, A) /\ Has(r.end.idx, C)
          /\ ~Has(r.end.idx, B)

\* what happens instead: Purge(B) fails to stage, and B is in the index
\* after Push
C19_PurgeFailsToStage ==
    \A A, B, C \in IDs :
      (/\ A # B /\ B # C /\ A # C
       /\ ~Has(index, A) /\ ~Has(index, B) /\ ~Has(index, C)) =>
        \A r \in {UpsertPurgeUpsert(backend, index, A, B, C)} :
          /\ r.purge.err /\ ~r.purge.pushed
          /\ ~r.end.err
          /\ Has(r.end.idx, A) /\ Has(r.end.idx, B) /\ Has(r.end.idx, C)

(***************************************************************************)
(* Further claims on the Batch operators (specification SpecBatch).        *)
(***************************************************************************)
\* call c is a bulk request of which the index rejected some documents and
\* accepted others
PartlyRejected(c) == c.rejected # <<>> /\ Len(c.rejected) < Len(c.pos)

\* no staged entry is sent twice
NoResend(calls) ==
    LET flat == FlatPos(calls)
    IN \A i, j \in 1..Len(flat) : flat[i] = flat[j] => i = j

\* C20: a Push on the clustered Batch during which the index rejected some
\* documents of a bulk request and accepted others returns an error, and no
\* staged entry is sent a second time.
C20_PartialFailureReported ==
    (backend = "opensearch" /\ last.pushed) =>
        /\ (\E j \in 1..Len(last.calls) : PartlyRejected(last.calls[j])) => last.err
        /\ NoResend(last.calls)

\* the second half alone: Push sends no staged entry twice
C20_NothingResent ==
    (backend = "opensearch" /\ last.pushed) => NoResend(last.calls)

(***************************************************************************)
(* Claims on calls that name a resource the index does not hold            *)
(* (specification Spec).                                                   *)
(***************************************************************************)
\* the outcomes of the direct Move, Delete, Restore and Purge calls for id
DirectCalls(be, idx, id, failAt) ==
    {EngineDeleteResult(be, idx, id, failAt), EngineRestoreResult(be, idx, id, failAt)}
      \cup {EngineMoveResult(be, idx, id, parentID, location, failAt)
               : parentID \in ParentIDs, location \in Locations}
      \cup {EnginePurgeResult(be, idx, id, onlyDeleted, failAt) : onlyDeleted \in BOOLEAN}

\* the call ended at the lookup: it returned an error, issued at most one
\* call on the index client, the one whose lookup failed, sent no write
\* request and left the index as it was
EndedAtLookup(r, idx) ==
    /\ r.err
    /\ r.idx = idx
    /\ Len(r.calls) <= 1
    /\ \A j \in 1..Len(r.calls) : ~r.calls[j].sent /\ ~r.calls[j].ok

NotFoundFails(be) ==
    \A id \in CallIDs : ~Has(index, id) =>
        \A failAt \in 0..1 : \A r \in DirectCalls(be, index, id, failAt) :
            EndedAtLookup(r, index)

\* C21: a direct Move, Delete, Restore or Purge call, on either backend, for
\* an ID that is not in the index returns an error, looks the resource up
\* once and does not retry, and leaves every document of the index as it was.
C21_NotFoundFails == NotFoundFails(backend)

\* C21's case: the index holds documents, d2 is not among them, and a
\* direct Delete of d2 has just returned its error
C21_Witness ==
    /\ last.op \in {"Move", "Delete", "Restore", "Purge"}
    /\ index # {}
    /\ ~Has(index, "d2")
    /\ EngineDeleteResult(backend, index, "d2", 0).err
    /\ EngineDeleteResult(backend, index, "d2", 0).idx = index

(***************************************************************************)
(* The search service: construction of the clustered backend, and the      *)
(* Search handler of the gRPC service with its cache, the scope directive  *)
(* of the query and the page size the backend requests of the index.       *)
(***************************************************************************)
\* what the cluster may answer to Ping, to the index template and to the
\* cluster-health request
Pings == {"ok", "err", "errResp"}
Applies == {"ok", "err"}
Healths ==
    [err : BOOLEAN, timedOut : BOOLEAN, status : {"green", "yellow", "red"}]

\* a construction that does not look at the timed_out flag of the answer
OSNewBackendIgnoresTimeout(ping, apply, health) ==
    IF ping # "ok"
    THEN [ok |-> FALSE, err |-> Err("fmt.wrapError", "ping"), requests |-> <<"ping">>]
    ELSE IF apply = "err"
    THEN [ok |-> FALSE, err |-> Err("fmt.wrapError", "template"),
          requests |-> <<"ping", "apply">>]
    ELSE IF health.err
    THEN [ok |-> FALSE, err |-> Err("fmt.wrapErrors", "health"),
          requests |-> <<"ping", "apply", "health">>]
    ELSE IF health.status # "green" /\ health.status # "yellow"
    THEN [ok |-> FALSE, err |-> Err("fmt.wrapError", "status"),
          requests |-> <<"ping", "apply", "health">>]
    ELSE [ok |-> TRUE, err |-> NoErr, requests |-> <<"ping", "apply", "health">>]

\* opensearch NewBackend: ok, the error, and the requests it made
OSNewBackend(ping, apply, health) ==
    IF ping = "err"
    THEN [ok |-> FALSE, err |-> Err("fmt.wrapErrors", "ping"), requests |-> <<"ping">>]
    ELSE IF ping = "errResp"
    THEN [ok |-> FALSE, err |-> Err("fmt.wrapError", "ping"), requests |-> <<"ping">>]
    ELSE IF apply = "err"
    THEN [ok |-> FALSE, err |-> Err("fmt.wrapError", "template"),
          requests |-> <<"ping", "apply">>]
    ELSE IF health.err
    THEN [ok |-> FALSE, err |-> Err("fmt.wrapErrors", "health"),
          requests |-> <<"ping", "apply", "health">>]
    ELSE IF health.timedOut
    THEN [ok |-> FALSE, err |-> Err("fmt.wrapError", "timedOut"),
          requests |-> <<"ping", "apply", "health">>]
    ELSE IF health.status # "green" /\ health.status # "yellow"
    THEN [ok |-> FALSE, err |-> Err("fmt.wrapError", "status"),
          requests |-> <<"ping", "apply", "health">>]
    ELSE [ok |-> TRUE, err |-> NoErr, requests |-> <<"ping", "apply", "health">>]

\* the characters of the queries
WhiteSpace == {" ", "\t", "\n", "\r"}
Letters == {"a", "b", "c", "e", "m", "o", "p", "s", "x", "y", "S"}
Alphabet == Letters \cup WhiteSpace \cup {":", "\""}
\* [^" "\n\r]
ScopeValueChars == Alphabet \ {"\"", " ", "\n", "\r"}
ScopeKey == <<"s", "c", "o", "p", "e", ":">>

\* the end of the longest run of characters of class that starts at i
RunEnd(s, i, class) ==
    LET stops == {j \in i..Len(s) : s[j] \notin class}
    IN IF stops = {} THEN Len(s) + 1 ELSE CHOOSE j \in stops : \A k \in stops : j <= k

\* strings.TrimSpace
TrimSpace(s) ==
    LET first == RunEnd(s, 1, WhiteSpace)
        inner == {j \in 1..Len(s) : s[j] \notin WhiteSpace}
    IN IF inner = {} THEN <<>>
       ELSE SubSeq(s, first, CHOOSE j \in inner : \A k \in inner : k <= j)

\* scopeRegex.FindStringSubmatch: scope:\s*([^" "\n\r]*), leftmost match,
\* both repetitions greedy; <<>> when there is none
FindScopeSubmatch(query) ==
    LET i == StrIndex(query, ScopeKey)
    IN IF i = 0 THEN <<>>
       ELSE LET from == RunEnd(query, i + Len(ScopeKey), WhiteSpace)
                to == RunEnd(query, from, ScopeValueChars)
            IN <<SubSeq(query, i, to - 1), SubSeq(query, from, to - 1)>>

ParseScope(query) ==
    LET match == FindScopeSubmatch(query)
    IN IF Len(match) >= 2
       THEN [query |-> TrimSpace(ReplaceAll(query, match[1], <<>>)),
             scope |-> TrimSpace(match[2])]
       ELSE [query |-> query, scope |-> <<>>]

\* what the query translator says of a query: it translates it, rejects it
\* as malformed, or fails for another reason
Verdicts == {"ok", "malformed", "fault"}
CreateErr(verdict) ==
    IF verdict = "ok" THEN NoErr
    ELSE IF verdict = "malformed" THEN Err("ValidationError", "query")
    ELSE Err("error", "translator")

IsValidationError(err) == err.type = "ValidationError"

\* what may go wrong after the translation: the search request on the index
\* fails, or a hit cannot be converted
Faults == {"none", "index", "hit"}

\* Search of a backend on a query that matches q: its error, the size it
\* requests of the index, and the total
BleveSearchOutcome(idx, q, pageSize, verdict, fault) ==
    IF CreateErr(verdict) # NoErr
    THEN [err |-> IF IsValidationError(CreateErr(verdict))
                  THEN Err("errtypes.BadRequest", CreateErr(verdict).cause)
                  ELSE CreateErr(verdict),
          size |-> 0, total |-> 0]
    ELSE IF fault # "none"
    THEN [err |-> Err("error", fault), size |-> BlevePageSize(pageSize), total |-> 0]
    ELSE [err |-> NoErr, size |-> BlevePageSize(pageSize),
          total |-> Cardinality(BleveQuery(idx, q, NoRef))]

OSSearchOutcome(idx, q, pageSize, verdict, fault) ==
    IF CreateErr(verdict) # NoErr
    THEN [err |-> Err("fmt.wrapError", CreateErr(verdict).cause), size |-> 0, total |-> 0]
    ELSE IF fault # "none"
    THEN [err |-> Err("fmt.wrapError", fault), size |-> OSPageSize(pageSize), total |-> 0]
    ELSE [err |-> NoErr, size |-> OSPageSize(pageSize),
          total |-> Cardinality(OSQuery(idx, q, NoRef))]

\* the searcher between the handler and the engine: it takes the scope
\* directive out of the query, searches, and hands the engine's error on
SearcherSearch(be, idx, query, pageSize, verdict, fault) ==
    Eval({ [err |-> r.err, size |-> r.size, total |-> r.total,
            text |-> ParseScope(query).query, scope |-> ParseScope(query).scope]
           : r \in {IF be = "bleve" THEN BleveSearchOutcome(idx, IDs, pageSize, verdict, fault)
                    ELSE OSSearchOutcome(idx, IDs, pageSize, verdict, fault)} })

\* strconv for the %d of cacheKey, on the page sizes of the model
Digits == <<"0", "1", "2", "3", "4", "5", "6", "7", "8", "9">>
Itoa(n) == IF n < 0 THEN <<"-", Digits[1 - n]>> ELSE <<Digits[n + 1]>>

\* cacheKey(query, pagesize, ref, user) for a request without a reference
\* by the user u
cacheKey(query, pagesize) ==
    query \o <<"|">> \o Itoa(pagesize) \o <<"|", "$", "!", "/", "|", "u">>

Tokens == {"ok", "missing", "invalid"}

\* the switch of the handler on the type of the searcher's error
HandlerStatus(err) ==
    IF err.type = "errtypes.BadRequest" THEN "BadRequest" ELSE "InternalServerError"

\* gRPC Service.Search: the reply and the cache it leaves
HandlerSearch(be, idx, c, query, pageSize, token, verdict, fault) ==
    LET req == [NoReply EXCEPT !.query = query, !.pageSize = pageSize]
    IN IF token = "missing"
       THEN [reply |-> [req EXCEPT !.status = "error", !.err = Err("errors.errorString", "token")],
             cache |-> c]
       ELSE IF token = "invalid"
       THEN [reply |-> [req EXCEPT !.status = "error", !.err = Err("error", "token")],
             cache |-> c]
       ELSE IF \E e \in c : e.key = cacheKey(query, pageSize)
       THEN [reply |-> [req EXCEPT !.status = "OK", !.cached = TRUE,
                              !.total = (CHOOSE e \in c : e.key = cacheKey(query, pageSize)).total],
             cache |-> c]
       ELSE Eval({
              IF res.err # NoErr
              THEN [reply |-> [req EXCEPT !.status = HandlerStatus(res.err), !.err = res.err,
                                          !.text = res.text, !.scope = res.scope,
                                          !.size = res.size],
                    cache |-> c]
              ELSE [reply |-> [req EXCEPT !.status = "OK", !.text = res.text,
                                          !.scope = res.scope, !.size = res.size,
                                          !.total = res.total],
                    cache |-> c \cup {[key |-> cacheKey(query, pageSize), total |-> res.total]}]
              : res \in {SearcherSearch(be, idx, query, pageSize, verdict, fault)} })

\* the queries with and without a scope directive
ScopeQueries ==
    { <<"a">>,
      <<"s", "c", "o", "p", "e", ":", "x", " ", "a">>,
      <<"a", " ", "s", "c", "o", "p", "e", ":", "x">>,
      <<"a", " ", "s", "c", "o", "p", "e", ":", "x", " ", "b">>,
      <<"m", "y", "s", "c", "o", "p", "e", ":", "x">>,
      <<"S", "c", "o", "p", "e", ":", "x">>,
      <<"s", "c", "o", "p", "e", ":", "x", "\t", "a">>,
      <<"s", "c", "o", "p", "e", ":", "x", " ", "a", " ", "s", "c", "o", "p", "e", ":", "y">> }
SearchPageSizes == {-2, -1, 0, 1, 2}

\* the requests: every query with the default page size, and one query with
\* every page size
SearchRequests ==
    {[query |-> q, pageSize |-> 0] : q \in ScopeQueries}
      \cup {[query |-> <<"a">>, pageSize |-> n] : n \in SearchPageSizes}

\* how a request goes: well, or the first thing that goes wrong
Outcomes == {"ok", "noToken", "badToken", "malformed", "translator", "index", "hit"}
TokenOf(o) == IF o = "noToken" THEN "missing" ELSE IF o = "badToken" THEN "invalid" ELSE "ok"
VerdictOf(o) == IF o = "malformed" THEN "malformed" ELSE IF o = "translator" THEN "fault" ELSE "ok"
FaultOf(o) == IF o \in {"index", "hit"} THEN o ELSE "none"

InitService ==
    /\ backend \in {"bleve", "opensearch"}
    /\ index = Canon
    /\ batch = {}
    /\ operations = <<>>
    /\ size = defaultBatchSize
    /\ last = NoLast
    /\ searchRes = NoSearch
    /\ nCalls = 0
    /\ DebInit
    /\ EvIdle
    /\ SvcIdle
    /\ ConIdle

\* the service constructs its backend and serves if it got one
SvcStart ==
    /\ svc.state = "new"
    /\ IF backend = "bleve"
       THEN svc' = [svc EXCEPT !.state = "serving"]
       ELSE \E ping \in Pings, apply \in Applies, health \in Healths :
              LET r == OSNewBackend(ping, apply, health)
              IN svc' = [state |-> IF r.ok THEN "serving" ELSE "failed", err |-> r.err,
                         ping |-> ping,
                         apply |-> IF Len(r.requests) >= 2 THEN apply ELSE "",
                         health |-> IF Len(r.requests) >= 3 THEN health ELSE NoHealth,
                         requests |-> r.requests]
    /\ UNCHANGED <<cache, reply, gw>>
    /\ UNCHANGED <<idxVars, debVars, evVars, conVars>>

SvcSearch ==
    /\ svc.state = "serving"
    /\ \E req \in SearchRequests, o \in Outcomes :
         \E r \in {HandlerSearch(backend, index, cache, req.query, req.pageSize,
                                 TokenOf(o), VerdictOf(o), FaultOf(o))} :
            /\ Cardinality(r.cache) <= MaxCached
            /\ reply' = r.reply
            /\ cache' = r.cache
    /\ UNCHANGED <<svc, gw>>
    /\ UNCHANGED <<idxVars, debVars, evVars, conVars>>

\* the time to live of a cached response runs out
CacheExpire ==
    /\ \E e \in cache : cache' = cache \ {e}
    /\ UNCHANGED <<svc, reply, gw>>
    /\ UNCHANGED <<idxVars, debVars, evVars, conVars>>

NextService ==
    \/ SvcStart
    \/ SvcSearch
    \/ CacheExpire

SpecService == InitService /\ [][NextService]_vars

(***************************************************************************)
(* Claims on the search service (specification SpecService).               *)
(***************************************************************************)
\* the last request reached the searcher and its Search failed
SearchFailed == reply.err # NoErr /\ reply.err.cause # "token"

\* a malformed query is reported as BadRequest
MalformedIsClientFault ==
    (SearchFailed /\ reply.err.cause = "query") =>
        reply.err.type = "errtypes.BadRequest" /\ reply.status = "BadRequest"

\* any other failure of Search is reported as InternalServerError
FaultIsServerFault ==
    (SearchFailed /\ reply.err.cause # "query") => reply.status = "InternalServerError"

\* C22: when the query translator rejects a query as malformed, Search on
\* either backend returns an error of the bad-request category and the gRPC
\* handler reports BadRequest; every other failure of Search is reported as
\* InternalServerError.
C22_ErrorCategories == MalformedIsClientFault /\ FaultIsServerFault

\* what holds instead: the claim on the embedded backend, and on both
\* backends its second half
C22_EmbeddedCategories ==
    /\ backend = "bleve" => MalformedIsClientFault
    /\ FaultIsServerFault

\* on the clustered backend a malformed query is reported as a server fault
C22_ClusteredMalformedIsServerFault ==
    (backend = "opensearch" /\ SearchFailed /\ reply.err.cause = "query") =>
        reply.err.type = "fmt.wrapError" /\ reply.status = "InternalServerError"

(***************************************************************************)
(* Further claims on a Batch (specification SpecBatch).                    *)
(***************************************************************************)
\* the last call was a staging call on the Batch
StagingCall ==
    last.target = "batch" /\ last.op \in {"Upsert", "Move", "Delete", "Restore", "Purge"}

\* a call on the index client that returned an error
FailedCall(calls) == \E j \in 1..Len(calls) : ~calls[j].ok

\* C23: if the staging step of a Batch call fails, the call returns that
\* error and Push is not invoked, even when the number of staged entries is
\* >= size; if the staging step succeeds and the Push the size check starts
\* fails, the staging call returns the error of that Push.
C23_StagingErrors ==
    StagingCall =>
        /\ last.stageErr => (last.err /\ ~last.pushed /\ last.calls = <<>>)
        /\ (~last.stageErr /\ last.pushed) => (last.err <=> FailedCall(last.calls))
        /\ (~last.stageErr /\ ~last.pushed) => ~last.err

\* C23's case: the staging step failed on a Batch that holds size entries
\* or more, and no Push ran
C23_Witness ==
    /\ StagingCall
    /\ last.stageErr /\ last.nStaged >= size
    /\ last.err /\ ~last.pushed

\* the other case: the staging step succeeded, the Push it started failed,
\* and the staging call returned the error
C23_PushFailed ==
    /\ StagingCall
    /\ ~last.stageErr /\ last.pushed /\ FailedCall(last.calls) /\ last.err

(***************************************************************************)
(* Claims on DocCount (specification Spec).                                *)
(***************************************************************************)
Live(idx) == {d \in idx : ~d.Deleted}

\* C24: after any sequence of Upsert, Delete, Restore and Purge calls,
\* DocCount on either backend is the number of indexed documents whose
\* Deleted flag is false; soft-deleted documents are not counted.
C24_DocCountLive ==
    last.op = "DocCount" => searchRes.total = Cardinality(Live(index))

\* what holds instead: the clustered backend counts the live documents, the
\* embedded backend counts every document of the index
C24_DocCountPerBackend ==
    last.op = "DocCount" =>
        searchRes.total = IF backend = "opensearch" THEN Cardinality(Live(index))
                          ELSE Cardinality(index)

(***************************************************************************)
(* Claims on the page size (specification SpecService).                    *)
(***************************************************************************)
\* the last request got as far as the search request on the index
AskedIndex ==
    /\ reply.status \in {"OK", "InternalServerError"}
    /\ ~reply.cached
    /\ reply.err.cause \notin {"query", "translator"}

MaximalPage == IF backend = "bleve" THEN MathMaxInt ELSE OSMaxPageSize

\* C25, as amended: Search maps pageSize to the size it requests of the
\* index as follows on both backends: -1 requests the maximal page
\* (math.MaxInt on the embedded backend, 1000 on the clustered one), 0
\* requests the default page of 200, and every other value, positive or
\* negative, is passed on unchanged.
C25_PageSize ==
    AskedIndex =>
        reply.size = IF reply.pageSize = -1 THEN MaximalPage
                     ELSE IF reply.pageSize = 0 THEN DefaultPageSize
                     ELSE reply.pageSize

\* C25 as stated: every negative pageSize requests the maximal page
C25_AnyNegativeIsMaximal ==
    AskedIndex =>
        reply.size = IF reply.pageSize < 0 THEN MaximalPage
                     ELSE IF reply.pageSize = 0 THEN DefaultPageSize
                     ELSE reply.pageSize

\* C25's case: a Search with pageSize -1 was answered, the maximal page
\* having been requested
C25_Witness ==
    /\ reply.status = "OK" /\ ~reply.cached
    /\ reply.pageSize = -1
    /\ reply.size = MaximalPage

\* a Search with pageSize -2 was answered, -2 having been requested
C25_OtherNegativePassedOn ==
    /\ reply.status = "OK" /\ ~reply.cached
    /\ reply.pageSize = -2
    /\ reply.size = -2

(***************************************************************************)
(* One Batch used by two callers at the same time.  Every call is Upsert   *)
(* of a document of its own, or Push.  A caller's position names the       *)
(* access to the staged list it is about to make:                          *)
(*   appending  opensearch, mu held: append to b.operations                *)
(*   indexing   bleve: b.batch.Index                                       *)
(*   sizing     the size check of withSizeLimit, no lock held              *)
(*   push       Push is entered                                            *)
(*   executing  Push sends what is staged to the index                     *)
(*   clearing   Push empties the staged list                               *)
(***************************************************************************)
\* the document the n-th Upsert stages
ConcIDs == <<"d1", "d2", "d3", "d4">>

Modifying(w) == callers[w].pc \in {"appending", "indexing", "clearing"}
Accessing(w) == Modifying(w) \/ callers[w].pc \in {"sizing", "executing"}
OtherAt(w, pc) == \E v \in Callers \ {w} : callers[v].pc = pc

StagedIDs ==
    IF backend = "bleve" THEN {e.id : e \in batch}
    ELSE {operations[i].id : i \in 1..Len(operations)}

\* Upsert is called; the clustered Batch takes mu before it appends
CallUpsert(w) ==
    /\ callers[w].pc = "idle"
    /\ nCalls < MaxCalls
    /\ nCalls' = nCalls + 1
    /\ IF backend = "opensearch"
       THEN /\ mu = 0
            /\ mu' = w
            /\ callers' = [callers EXCEPT ![w] = [pc |-> "appending", id |-> ConcIDs[nCalls + 1]]]
       ELSE /\ UNCHANGED mu
            /\ callers' = [callers EXCEPT ![w] = [pc |-> "indexing", id |-> ConcIDs[nCalls + 1]]]
    /\ UNCHANGED <<entryLog, backend, index, batch, operations, size, last, searchRes>>
    /\ UNCHANGED <<debVars, evVars, svcVars>>

\* the staging step writes its entry.  On the embedded Batch a write made
\* while another caller modifies the batch is unsynchronised: the entry is
\* written, or it is lost, or the runtime stops the process
StageWrite(w) ==
    /\ callers[w].pc \in {"appending", "indexing"}
    /\ IF backend = "opensearch"
       THEN /\ operations' = Append(operations,
                                    OpUpsert(callers[w].id, CanonOf(callers[w].id)))
            /\ mu' = 0
            /\ callers' = [callers EXCEPT ![w].pc = "sizing"]
            /\ UNCHANGED batch
       ELSE /\ \E outcome \in IF \E v \in Callers \ {w} : Modifying(v)
                              THEN {"written", "lost", "crashed"} ELSE {"written"} :
                 /\ batch' = IF outcome = "written"
                             THEN BatchIndex(batch, callers[w].id, CanonOf(callers[w].id))
                             ELSE batch
                 /\ callers' = IF outcome = "crashed"
                               THEN [v \in Callers |-> [callers[v] EXCEPT !.pc = "crashed"]]
                               ELSE [callers EXCEPT ![w].pc = "sizing"]
            /\ UNCHANGED <<mu, operations>>
    /\ entryLog' = [entryLog EXCEPT ![callers[w].id].staged = TRUE]
    /\ UNCHANGED <<backend, index, size, last, searchRes, nCalls>>
    /\ UNCHANGED <<debVars, evVars, svcVars>>

\* the counts an unlocked read of the staged list may see
SizesSeen(w) ==
    {IF backend = "bleve" THEN BatchSize(batch) ELSE Len(operations)}
      \cup (IF OtherAt(w, "appending") THEN {Len(operations) + 1} ELSE {})
      \cup (IF OtherAt(w, "indexing") THEN {BatchSize(batch) + 1} ELSE {})
      \cup (IF OtherAt(w, "clearing") THEN {0} ELSE {})

\* withSizeLimit compares the staged count with size
SizeCheck(w) ==
    /\ callers[w].pc = "sizing"
    /\ \E n \in SizesSeen(w) :
         callers' = [callers EXCEPT ![w].pc = IF n >= size THEN "push" ELSE "idle"]
    /\ UNCHANGED <<mu, entryLog>>
    /\ UNCHANGED idxVars
    /\ UNCHANGED <<debVars, evVars, svcVars>>

CallPush(w) ==
    /\ callers[w].pc = "idle"
    /\ callers' = [callers EXCEPT ![w] = [pc |-> "push", id |-> ""]]
    /\ UNCHANGED <<mu, entryLog>>
    /\ UNCHANGED idxVars
    /\ UNCHANGED <<debVars, evVars, svcVars>>

\* Push begins: the clustered Batch takes mu, the embedded one returns if
\* its batch is empty
PushBegin(w) ==
    /\ callers[w].pc = "push"
    /\ IF backend = "opensearch"
       THEN /\ mu = 0
            /\ mu' = w
            /\ callers' = [callers EXCEPT ![w].pc = "executing"]
       ELSE /\ UNCHANGED mu
            /\ callers' = [callers EXCEPT ![w].pc = IF BatchSize(batch) = 0 THEN "idle"
                                                    ELSE "executing"]
    /\ UNCHANGED entryLog
    /\ UNCHANGED idxVars
    /\ UNCHANGED <<debVars, evVars, svcVars>>

\* Push sends what is staged to the index
PushExec(w) ==
    /\ callers[w].pc = "executing"
    /\ index' = IF backend = "bleve" THEN IndexBatch(index, batch)
                ELSE OSPush(index, operations, 0).idx
    /\ entryLog' = [id \in IDs |-> IF id \in StagedIDs
                                  THEN [entryLog[id] EXCEPT !.runs = @ + 1] ELSE entryLog[id]]
    /\ callers' = [callers EXCEPT ![w].pc = "clearing"]
    /\ UNCHANGED <<mu, backend, batch, operations, size, last, searchRes, nCalls>>
    /\ UNCHANGED <<debVars, evVars, svcVars>>

\* Push empties the staged list: b.operations = nil and Unlock, or
\* b.batch.Reset()
PushClear(w) ==
    /\ callers[w].pc = "clearing"
    /\ IF backend = "opensearch"
       THEN operations' = <<>> /\ mu' = 0 /\ UNCHANGED batch
       ELSE batch' = {} /\ UNCHANGED <<mu, operations>>
    /\ callers' = [callers EXCEPT ![w].pc = "idle"]
    /\ UNCHANGED <<entryLog, backend, index, size, last, searchRes, nCalls>>
    /\ UNCHANGED <<debVars, evVars, svcVars>>

InitConc ==
    /\ backend \in {"bleve", "opensearch"}
    /\ index = {}
    /\ batch = {}
    /\ operations = <<>>
    /\ size \in 1..MaxSize
    /\ last = NoLast
    /\ searchRes = NoSearch
    /\ nCalls = 0
    /\ DebInit
    /\ EvIdle
    /\ SvcIdle
    /\ ConIdle

NextConc ==
    \/ \E w \in Callers : CallUpsert(w)
    \/ \E w \in Callers : StageWrite(w)
    \/ \E w \in Callers : SizeCheck(w)
    \/ \E w \in Callers : CallPush(w)
    \/ \E w \in Callers : PushBegin(w)
    \/ \E w \in Callers : PushExec(w)
    \/ \E w \in Callers : PushClear(w)

SpecConc == InitConc /\ [][NextConc]_vars

(***************************************************************************)
(* Claims on the concurrent use of a Batch (specification SpecConc).       *)
(***************************************************************************)
\* no caller is about to read or write the staged list while another is
\* about to modify it
Serialized ==
    \A w \in Callers : \A v \in Callers \ {w} : ~(Modifying(w) /\ Accessing(v))

\* every entry that was staged is still staged or was executed
NoneLost ==
    \A id \in IDs : entryLog[id].staged => (id \in StagedIDs \/ entryLog[id].runs >= 1)

NoneTwice == \A id \in IDs : entryLog[id].runs <= 1

\* C26: a Batch serializes access to its staged list: when two workers call
\* staging operations and Push on one Batch at the same time, the staged
\* list is never read or written by one caller while another modifies it,
\* and every staged entry is executed by exactly one Push, none lost and
\* none executed twice.
C26_Serialized == Serialized /\ NoneLost /\ NoneTwice

\* what holds instead on the clustered Batch: every staged entry is executed
\* by exactly one Push, and the appends and Push exclude one another
C26_ClusteredExactlyOnce ==
    backend = "opensearch" =>
        /\ NoneLost /\ NoneTwice
        /\ \A w \in Callers : \A v \in Callers \ {w} :
             ~(callers[w].pc \in {"appending", "executing", "clearing"}
               /\ callers[v].pc \in {"appending", "executing", "clearing"})

\* the embedded Batch loses no entry and runs none twice
C26_EmbeddedExactlyOnce == backend = "bleve" => (NoneLost /\ NoneTwice)

\* the clustered Batch never reads its staged list unlocked while another
\* caller modifies it
C26_ClusteredSerialized == backend = "opensearch" => Serialized

(***************************************************************************)
(* Claims on the paths of the index (specification Spec).                  *)
(***************************************************************************)
UniqueLivePaths(idx) ==
    \A a \in idx : \A b \in idx :
        (~a.Deleted /\ ~b.Deleted /\ a.RootID = b.RootID /\ a.Path = b.Path) => a.ID = b.ID

\* C27: after any sequence of Upsert, Move, Delete, Restore and Purge calls,
\* no two documents with Deleted = false share the same (RootID, Path) pair.
C27_UniqueLivePaths == UniqueLivePaths(index)

\* what holds instead: only a Move or a Restore brings a second live
\* document to a (RootID, Path) pair
C27_BrokenByMoveOrRestore ==
    [][ (UniqueLivePaths(index) /\ ~UniqueLivePaths(index'))
          => last'.op \in {"Move", "Restore"} ]_vars

(***************************************************************************)
(* Claims on the construction of the clustered backend (specification      *)
(* SpecService).                                                           *)
(***************************************************************************)
\* the cluster answered every request of the construction well
ClusterHealthy ==
    /\ svc.ping = "ok"
    /\ svc.apply = "ok"
    /\ ~svc.health.err /\ ~svc.health.timedOut
    /\ svc.health.status \in {"green", "yellow"}

\* C28: the construction of the clustered backend returns a usable backend
\* only if the ping succeeded without an error response, the index template
\* was applied, and the cluster-health request neither failed nor timed out
\* and reported green or yellow; in every other case it returns no backend
\* and an error.
C28_FailFast ==
    (backend = "opensearch" /\ svc.state # "new") =>
        /\ svc.state = "serving" <=> ClusterHealthy
        /\ svc.state = "serving" => svc.err = NoErr
        /\ svc.state # "serving" => (svc.state = "failed" /\ svc.err # NoErr)

\* C28's case: the cluster reported yellow and the backend serves
C28_Witness ==
    /\ backend = "opensearch"
    /\ svc.state = "serving"
    /\ svc.health.status = "yellow"
    /\ reply.status = "OK"

\* a cluster whose health request timed out, or is red, gets no backend
C28_UnhealthyRefused ==
    /\ backend = "opensearch"
    /\ svc.state = "failed"
    /\ svc.requests = <<"ping", "apply", "health">>
    /\ svc.health.timedOut

(***************************************************************************)
(* C29: the size a batch operator is made with.                            *)
(***************************************************************************)
NewBatchCall == last.target = "batch" /\ last.op = "NewBatch"

\* C29: NewBatch(size) on either backend returns an error and no operator for
\* every size <= 0, and an operator of that size with nothing staged for
\* every size >= 1
C29_NewBatchSize ==
    NewBatchCall =>
        IF last.arg <= 0
        THEN last.err /\ ~HasOperator
        ELSE /\ ~last.err
             /\ HasOperator
             /\ size = last.arg
             /\ StagedCount(backend, IF backend = "bleve" THEN batch ELSE operations) = 0

\* NewBatch(0) was refused
C29_Witness == NewBatchCall /\ last.arg = 0 /\ last.err /\ ~HasOperator

\* NewBatch(1) returned an operator
C29_SmallestAccepted == NewBatchCall /\ last.arg = 1 /\ ~last.err /\ size = 1

(***************************************************************************)
(* C30: the scope directive of a query.                                    *)
(***************************************************************************)
\* the last request was handed to the searcher, which parsed its query
ScopeParsed ==
    /\ reply.status # "none"
    /\ ~reply.cached
    /\ ~(reply.err # NoErr /\ reply.err.cause = "token")

\* the whitespace-delimited tokens of a query, by the place they start at
TokenStarts(q) ==
    {i \in 1..Len(q) : q[i] \notin WhiteSpace /\ (i = 1 \/ q[i - 1] \in WhiteSpace)}
TokenAt(q, i) == SubSeq(q, i, RunEnd(q, i, Alphabet \ WhiteSpace) - 1)

\* the tokens scope:<value>
DirectiveStarts(q) == {i \in TokenStarts(q) : HasPrefix(TokenAt(q, i), ScopeKey)}
FirstDirective(q) == CHOOSE i \in DirectiveStarts(q) : \A j \in DirectiveStarts(q) : i <= j
WithoutToken(q, i) == SubSeq(q, 1, i - 1) \o SubSeq(q, i + Len(TokenAt(q, i)), Len(q))

\* C30: ParseScope returns the query without its token scope:<value>, trimmed,
\* and <value>, and the returned query holds no directive; a token that only
\* ends in scope:<value> or differs in letter case is no directive; a query
\* without a directive is returned unchanged with an empty scope
C30_ParseScope ==
    ScopeParsed =>
        LET q == reply.query
        IN IF DirectiveStarts(q) = {}
           THEN reply.text = q /\ reply.scope = <<>>
           ELSE LET i == FirstDirective(q)
                IN /\ reply.scope = SubSeq(TokenAt(q, i), Len(ScopeKey) + 1, Len(TokenAt(q, i)))
                   /\ reply.text = TrimSpace(WithoutToken(q, i))
                   /\ DirectiveStarts(reply.text) = {}

\* scope: is found anywhere in the query, inside a token too
C30_InsideToken ==
    ~(/\ ScopeParsed
      /\ DirectiveStarts(reply.query) = {}
      /\ reply.scope # <<>>
      /\ reply.text # reply.query)

\* a second directive with another value stays in the returned query
C30_SecondDirectiveStays ==
    ~(/\ ScopeParsed
      /\ DirectiveStarts(reply.query) # {}
      /\ DirectiveStarts(reply.text) # {})

\* a tab does not end the value: [^" "\n\r] leaves it out
C30_TabEndsValue ==
    ~(/\ ScopeParsed
      /\ \E i \in 1..Len(reply.scope) : reply.scope[i] \in WhiteSpace)

\* the claim holds of the queries without a tab in which scope: occurs at most
\* once, at the start of a token
C30_SingleDirective ==
    (ScopeParsed /\ (\A i \in 1..Len(reply.query) : reply.query[i] # "\t")
                 /\ Cardinality({i \in 1..Len(reply.query) :
                                    HasPrefix(SubSeq(reply.query, i, Len(reply.query)), ScopeKey)}
                                 \ TokenStarts(reply.query)) = 0
                 /\ Cardinality(DirectiveStarts(reply.query)) <= 1)
        => C30_ParseScope

\* a query with one directive was parsed
C30_DirectiveParsed ==
    ScopeParsed /\ Cardinality(DirectiveStarts(reply.query)) = 1 /\ reply.scope = <<"x">>

(***************************************************************************)
(* C31: what a Move writes and what it leaves.                             *)
(***************************************************************************)
SameIdentity(d, e) ==
    /\ e.ID = d.ID
    /\ e.RootID = d.RootID
    /\ e.Type = d.Type
    /\ e.Deleted = d.Deleted

MoveFrames(be) ==
    \A id \in IDs, parentID \in ParentIDs, location \in Locations :
        LET r == EngineMoveResult(be, index, id, parentID, location, 0)
        IN (Has(index, id) /\ ~r.err) =>
            LET c == DocOf(index, id)
            IN /\ Has(r.idx, id)
               /\ DocOf(r.idx, id).Path = MakeRelativePath(location)
               /\ DocOf(r.idx, id).Name = PathBase(MakeRelativePath(location))
               /\ DocOf(r.idx, id).ParentID = parentID
               /\ SameIdentity(c, DocOf(r.idx, id))
               /\ \A d \in Descendants(index, c) :
                    /\ Has(r.idx, d.ID)
                    /\ DocOf(r.idx, d.ID).Name = d.Name
                    /\ DocOf(r.idx, d.ID).ParentID = d.ParentID
                    /\ SameIdentity(d, DocOf(r.idx, d.ID))

\* C31: after Move(id, parentID, location) returns nil, the moved root has Path
\* equal to the space-relative form of location, Name equal to the basename of
\* that path and ParentID equal to parentID; Name and ParentID of every
\* descendant are unchanged; ID, RootID, Type and Deleted of the root and of
\* every descendant are unchanged
C31_MoveFrame == MoveFrames(backend)

\* a container with a descendant was moved, and the descendant followed it
C31_Witness ==
    /\ last.op = "Move" /\ ~last.err
    /\ \E c \in index :
          /\ c.Type = Container
          /\ c.Path = <<".", "/", "c">> /\ c.Name = <<"c">> /\ c.ParentID = "p"
          /\ \E d \in Descendants(index, c) : d.ParentID = c.ID

(***************************************************************************)
(* C32: a pushed Batch against the same calls made one by one.             *)
(***************************************************************************)
ThenMove(be, s, id, parentID, location) ==
    BatchMoveResult(be, s.idx, s.staged, s.staged, defaultBatchSize, id, parentID, location, 0)
ThenDelete(be, s, id) ==
    BatchDeleteResult(be, s.idx, s.staged, s.staged, defaultBatchSize, id, 0)

\* Move(id) and Delete(id) staged on one new Batch, then Push
MoveDeleteStaged(be, idx, id, parentID, location) ==
    Eval({ Eval({ Eval({ [move |-> s1, delete |-> s2, end |-> s3]
             : s3 \in {ThenPush(be, s2)} })
             : s2 \in {ThenDelete(be, s1, id)} })
             : s1 \in {ThenMove(be, NewBatch(be, idx), id, parentID, location)} })

\* the same two calls made on the backend, each a batch of its own
MoveDeleteDirect(be, idx, id, parentID, location) ==
    Eval({ Eval({ [move |-> r1, end |-> r2]
             : r2 \in {EngineDeleteResult(be, r1.idx, id, 0)} })
             : r1 \in {EngineMoveResult(be, idx, id, parentID, location, 0)} })

\* Upsert(id) and Delete(id) staged on one new Batch, then Push
UpsertDeleteStaged(be, idx, id) ==
    Eval({ Eval({ Eval({ [upsert |-> s1, delete |-> s2, end |-> s3]
             : s3 \in {ThenPush(be, s2)} })
             : s2 \in {ThenDelete(be, s1, id)} })
             : s1 \in {ThenUpsert(be, NewBatch(be, idx), id)} })

UpsertDeleteDirect(be, idx, id) ==
    Eval({ Eval({ [upsert |-> r1, end |-> r2]
             : r2 \in {EngineDeleteResult(be, r1.idx, id, 0)} })
             : r1 \in {EngineUpsertResult(be, idx, id, CanonOf(id), 0)} })

StagedAsDirect(be) ==
    /\ \A id \in IDs, parentID \in ParentIDs, location \in Locations :
          Has(index, id) =>
            \A b \in {MoveDeleteStaged(be, index, id, parentID, location)} :
            \A d \in {MoveDeleteDirect(be, index, id, parentID, location)} :
              (~d.move.err /\ ~d.end.err) =>
                 /\ ~b.move.err /\ ~b.delete.err /\ ~b.end.err
                 /\ b.end.idx = d.end.idx
                 /\ DocOf(b.end.idx, id).Path = MakeRelativePath(location)
                 /\ DocOf(b.end.idx, id).Deleted
    /\ \A id \in IDs :
          ~Has(index, id) =>
            \A b \in {UpsertDeleteStaged(be, index, id)} :
            \A d \in {UpsertDeleteDirect(be, index, id)} :
              (~d.upsert.err /\ ~d.end.err) =>
                 /\ ~b.upsert.err /\ ~b.delete.err /\ ~b.end.err
                 /\ b.end.idx = d.end.idx
                 /\ Has(b.end.idx, id) /\ DocOf(b.end.idx, id).Deleted

\* C32: pushing a Batch on which operations were staged, fewer than its size,
\* leaves the index as the same operations leave it when they are made one
\* after another through the backend; Move(C, p, loc) and Delete(C) staged and
\* pushed leave C at the new path with Deleted = true, and Upsert(X) and
\* Delete(X) of a new X leave X indexed with Deleted = true
C32_StagedAsDirect == StagedAsDirect(backend)

\* C32 on the clustered backend alone, whose staged operations look the
\* index up when they are pushed
C32_ClusteredStagedAsDirect == StagedAsDirect("opensearch")

\* on the embedded backend Delete(C) staged after Move(C) puts C back at its
\* old path, and Delete(X) of a staged X fails
C32_EmbeddedStagesFromIndex ==
    /\ \A id \in IDs, parentID \in ParentIDs, location \in Locations :
          (Has(index, id) /\ DocOf(index, id).Path # MakeRelativePath(location)) =>
            \A b \in {MoveDeleteStaged("bleve", index, id, parentID, location)} :
               /\ ~b.end.err
               /\ DocOf(b.end.idx, id).Path = DocOf(index, id).Path
               /\ DocOf(b.end.idx, id).Deleted
    /\ \A id \in IDs :
          ~Has(index, id) =>
            \A b \in {UpsertDeleteStaged("bleve", index, id)} :
               /\ b.delete.err
               /\ ~b.end.err
               /\ Has(b.end.idx, id) /\ ~DocOf(b.end.idx, id).Deleted

(***************************************************************************)
(* C33: the staged entries against the size of the Batch.                  *)
(***************************************************************************)
\* a call on the Batch other than its construction
BatchCall == last.target = "batch" /\ last.op # "NewBatch"

StagedNow == StagedCount(backend, IF backend = "bleve" THEN batch ELSE operations)

WithinSize ==
    HasOperator =>
        /\ StagedNow <= size
        /\ BatchCall => last.nStaged <= size

\* C33: the number of entries staged in a Batch never exceeds its size, and no
\* Push commits more than size entries in one batch, for every staging call,
\* a Move, Delete or Restore of a container that stages one entry per
\* descendant included
C33_WithinSize == WithinSize

\* C33 on the clustered Batch, where every staging call stages one entry
C33_ClusteredWithinSize == backend = "opensearch" => WithinSize

\* a cascade on the embedded Batch stages more than size entries in one call
\* and Push commits them as one batch
C33_CascadeOverflows ==
    ~(/\ backend = "bleve"
      /\ last.target = "batch" /\ last.op \in {"Move", "Delete", "Restore"}
      /\ ~last.stageErr
      /\ last.nStaged > size
      /\ last.pushed /\ ~last.err)

(***************************************************************************)
(* C34: the Hidden flag under Move, Delete and Restore.                    *)
(***************************************************************************)
\* a Move, Delete or Restore on a Batch that held nothing before the call:
\* what the call writes to the index is what the call itself staged
AloneOnBatch ==
    /\ last'.target = "batch" /\ last'.op \in {"Move", "Delete", "Restore"}
    /\ batch = {} /\ operations = <<>>

HiddenKept == \A d \in index : \A e \in index' : e.ID = d.ID => e.Hidden = d.Hidden

\* C34: Move, Delete and Restore never change the Hidden flag of a document: a
\* resource indexed with Hidden = true still has Hidden = true after it, or a
\* container above it, is moved, deleted or restored, on either backend
C34_HiddenKept == [][ AloneOnBatch => HiddenKept ]_vars

\* C34 on the clustered backend, whose scripts write single fields
C34_ClusteredHiddenKept == [][ (backend = "opensearch" /\ AloneOnBatch) => HiddenKept ]_vars

\* on the embedded backend the documents the call writes back are not hidden
C34_EmbeddedClearsHidden ==
    [][ (backend = "bleve" /\ AloneOnBatch /\ last'.pushed /\ ~last'.err) =>
          \A e \in index' : (\E x \in last'.stagedOps : x.id = e.ID) => ~e.Hidden ]_vars

\* a hidden document is in the index and the container above it was moved,
\* deleted or restored
C34_HiddenReached ==
    /\ last.target = "batch" /\ last.op \in {"Move", "Delete", "Restore"}
    /\ last.pushed /\ ~last.err
    /\ backend = "opensearch"
    /\ \E e \in index : e.Hidden

(***************************************************************************)
(* The helpers that ask the gateway: ResolveReference and statResource.    *)
(***************************************************************************)
\* a *provider.Reference, nil or with its resource id and path
NilRef == [nil |-> TRUE, storage |-> "", space |-> "", opaque |-> "", path |-> <<>>]
Reference(storage, space, opaque, path) ==
    [nil |-> FALSE, storage |-> storage, space |-> space, opaque |-> opaque, path |-> path]

\* a *provider.StatResponse, nil or with its status code
NilStat == [nil |-> TRUE, code |-> ""]
StatResponse(code) == [nil |-> FALSE, code |-> code]

\* how the gateway answers: no client, a transport error, or a status code
Codes == {"OK", "NOT_FOUND", "PERMISSION_DENIED", "INTERNAL"}
Answers == {"selector", "rpc"} \cup Codes

\* ResolveReference: the reference of a space root as it is; else the path the
\* gateway gives for the resource, relative to the space root.  err is the
\* error of GetPath, nil when GetPath answered with a status
ResolveReference(ref, answer, path) ==
    IF ref.opaque = ref.space THEN [res |-> ref, err |-> "nil"]
    ELSE IF answer = "selector" THEN [res |-> NilRef, err |-> "selector"]
    ELSE IF answer = "rpc" \/ answer # "OK"
    THEN [res |-> NilRef, err |-> IF answer = "rpc" THEN "rpc" ELSE "nil"]
    ELSE [res |-> Reference(ref.storage, ref.space, ref.space, MakeRelativePath(path)),
          err |-> "nil"]

\* statResource: the stat response when its status is OK, nothing and no
\* error when it is NOT_FOUND, an error for every other status
statResource(answer) ==
    IF answer = "selector" THEN [res |-> NilStat, err |-> "selector"]
    ELSE IF answer = "rpc" THEN [res |-> NilStat, err |-> "rpc"]
    ELSE IF answer = "OK" THEN [res |-> StatResponse(answer), err |-> "nil"]
    ELSE IF answer = "NOT_FOUND" THEN [res |-> NilStat, err |-> "nil"]
    ELSE [res |-> NilStat, err |-> "stat"]

\* a space root and two resources below it
GatewayRefs ==
    { Reference("s", "r1", "r1", <<".">>),
      Reference("s", "r1", "n1", <<>>),
      Reference("s", "r2", "n2", <<>>) }
GatewayPaths == { <<"/", "a">>, <<"a", "/", "b">>, <<"/">> }

GwResolveReference ==
    /\ Len(gw) < MaxGatewayCalls
    /\ \E ref \in GatewayRefs, answer \in Answers, path \in GatewayPaths :
          \* the path matters in an OK answer only
          /\ (answer # "OK" \/ ref.opaque = ref.space) => path = <<"/">>
          /\ \E r \in {ResolveReference(ref, answer, path)} :
                gw' = Append(gw, [fn |-> "ResolveReference", ref |-> ref, answer |-> answer,
                                  path |-> path, nil |-> r.res.nil, err |-> r.err,
                                  res |-> r.res])
    /\ UNCHANGED <<svc, cache, reply>>
    /\ UNCHANGED <<idxVars, debVars, evVars, conVars>>

GwStatResource ==
    /\ Len(gw) < MaxGatewayCalls
    /\ \E ref \in GatewayRefs, answer \in Answers :
          \E r \in {statResource(answer)} :
             gw' = Append(gw, [fn |-> "statResource", ref |-> ref, answer |-> answer,
                               path |-> <<>>, nil |-> r.res.nil, err |-> r.err,
                               res |-> NilRef])
    /\ UNCHANGED <<svc, cache, reply>>
    /\ UNCHANGED <<idxVars, debVars, evVars, conVars>>

InitGateway == InitService

NextGateway ==
    \/ GwResolveReference
    \/ GwStatResource

SpecGateway == InitGateway /\ [][NextGateway]_vars

(***************************************************************************)
(* C35: what the gateway helpers return (specification SpecGateway).       *)
(***************************************************************************)
\* the gateway was asked and answered with a status
Answered(c) ==
    /\ c.answer \in Codes
    /\ c.fn = "ResolveReference" => c.ref.opaque # c.ref.space

BestEffort(c) == c.fn = "statResource" /\ c.answer = "NOT_FOUND"

Surfaced(c) ==
    /\ (c.nil /\ c.err = "nil") => BestEffort(c)
    /\ (Answered(c) /\ c.answer # "OK" /\ ~BestEffort(c)) => c.err # "nil"

\* C35: ResolveReference and statResource never return both a nil result and
\* a nil error, except statResource when the stat status is NOT_FOUND; a
\* gateway answer with a status other than OK always reaches the caller as a
\* non-nil error
C35_Surfaced == \A i \in 1..Len(gw) : Surfaced(gw[i])

\* C35 of statResource alone
C35_StatSurfaced == \A i \in 1..Len(gw) : gw[i].fn = "statResource" => Surfaced(gw[i])

\* ResolveReference returns nil and no error for every status other than OK
C35_ResolveSwallowsStatus ==
    \A i \in 1..Len(gw) :
        (gw[i].fn = "ResolveReference" /\ Answered(gw[i]) /\ gw[i].answer # "OK")
            => (gw[i].nil /\ gw[i].err = "nil")

(***************************************************************************)
(* C36: a call on a resource of one space and the other spaces.            *)
(***************************************************************************)
\* every document of a space other than that of id is in after as it is in
\* the index
OtherSpacesKept(id, after) ==
    \A d \in index : d.RootID # DocOf(index, id).RootID => d \in after

SpacesIsolated(be) ==
    \A id \in IDs :
        Has(index, id) =>
            /\ \A parentID \in ParentIDs, location \in Locations :
                  OtherSpacesKept(id, EngineMoveResult(be, index, id, parentID, location, 0).idx)
            /\ OtherSpacesKept(id, EngineDeleteResult(be, index, id, 0).idx)
            /\ OtherSpacesKept(id, EngineRestoreResult(be, index, id, 0).idx)
            /\ \A onlyDeleted \in BOOLEAN :
                  OtherSpacesKept(id, EnginePurgeResult(be, index, id, onlyDeleted, 0).idx)

\* C36: Move, Delete, Restore and Purge of a resource of one space leave every
\* document with another RootID unchanged, also when another space holds
\* documents at the path of the target or below it, on both backends
C36_SpacesIsolated == SpacesIsolated(backend)

\* C36 on the embedded backend alone
C36_EmbeddedSpacesIsolated == SpacesIsolated("bleve")

(***************************************************************************)
(* The service while its stream ends or its context is cancelled.          *)
(***************************************************************************)
NextStop ==
    \/ RunConsume
    \/ RunSpawn
    \/ RunStop
    \/ RunReturn
    \/ StreamClose
    \/ ParentCancel
    \/ CloseCAS(1)
    \/ CloseChan(1)
    \/ \E kind \in RunKinds, s \in RunSpaces : Deliver(kind, s)
    \/ \E w \in Workers : WorkerRecv(w)
    \/ \E w \in Workers : WorkerClosed(w)
    \/ \E w \in Workers : WorkerDone(w)
    \/ \E w \in Workers : WorkerCall(w)

\* one Close call at most, and the debouncer left with what it was handed.
\* Fairness as in SpecRun; a worker at its select with a case that can
\* proceed takes one of them
SpecStop ==
    /\ InitRun /\ [][NextStop]_vars
    /\ WF_vars(RunConsume) /\ WF_vars(RunSpawn) /\ WF_vars(RunStop) /\ WF_vars(RunReturn)
    /\ WF_vars(CloseChan(1))
    /\ \A w \in Workers :
          /\ WF_vars(WorkerCall(w))
          /\ SF_vars(WorkerDone(w))
          /\ WF_vars(WorkerRecv(w) \/ WorkerClosed(w))

(***************************************************************************)
(* C37: what makes Run return (specification SpecStop).                    *)
(***************************************************************************)
WorkersGone == \A w \in Workers : w <= numConsumers => workers[w].pc = "exited"
\* the stream has ended and its events are taken, or the context is cancelled
InputOver == ctxDone \/ (chClosed /\ ch = <<>>)
\* Run is past <-s.stopCh
PastStop == run \in {"waiting", "returned"}

\* C37: Run returns only after Close has been called: when the input channel
\* is closed or the parent context is cancelled all workers exit, but Run
\* keeps blocking on the stop channel until Close is called
C37_ReturnsAfterClose ==
    /\ [](RunOver => (CloseCalled /\ stopCh > 0))
    /\ [][run = "started" /\ stopCh = 0 => run' = "started"]_vars

\* a Run whose Consume succeeded passes the stop channel only after a Close
\* call closed it; with the stream ended or the context cancelled its workers
\* exit while it stays there
C37_BlocksUntilClose ==
    /\ [](PastStop => (CloseCalled /\ stopCh > 0))
    /\ [][run = "started" /\ stopCh = 0 => run' = "started"]_vars
    /\ ((run = "started" /\ InputOver) ~> (WorkersGone \/ PastStop))

\* the stream ended, every worker has exited, no Close call was made, and Run
\* is still at the stop channel
C37_Witness ==
    /\ run = "started" /\ WorkersGone
    /\ chClosed /\ ~ctxDone
    /\ ~CloseCalled

\* the same after the parent context was cancelled
C37_CancelledAndBlocked ==
    /\ run = "started" /\ WorkersGone
    /\ ctxDone /\ ~chClosed
    /\ ~CloseCalled

(***************************************************************************)
(* processEvent on events of every kind, subscribed to or not.             *)
(***************************************************************************)
\* the kinds of either mode of New, and a kind the service never asks for
AllKinds == Events(TRUE) \cup Events(FALSE) \cup {"ShareCreated"}

\* processEvent from its first line to its return, by worker 1; ok: the call
\* on the index succeeded.  The last entry is the return, ok when it is nil
HandleEvent ==
    /\ nSent < MaxEvents
    /\ nSent' = nSent + 1
    /\ \E kind \in AllKinds, ok \in BOOLEAN :
          LET ev == Event(nSent + 1, kind, StreamSpace(nSent + 1))
              cs == processEvent(ev)
          IN /\ evlog' = evlog
                   \o [i \in 1..Len(cs) |->
                         Logged(1, ev, cs[i], cs[i].call \in IndexCalls => ok)]
                   \o <<Logged(1, ev, CallOf("return", NoRes), TRUE)>>
             /\ handed' = [s \in Spaces |->
                             IF \E i \in 1..Len(cs) :
                                  cs[i].call = "Debounce" /\ cs[i].arg.space = s
                             THEN handed[s] \cup {ev.seq}
                             ELSE handed[s]]
    /\ UNCHANGED <<asyncUploads, numConsumers, chClosed, ch, workers, run, ctxDone, stopped,
                   stopCh, closers>>
    /\ UNCHANGED <<idxVars, debVars, svcVars, conVars>>

InitKinds == InitEvent

NextKinds ==
    \/ HandleEvent

SpecKinds == InitKinds /\ [][NextKinds]_vars

(***************************************************************************)
(* C38: what processEvent does with the acknowledgment (SpecKinds).        *)
(***************************************************************************)
CallsOf(n, name) == {i \in LogPos : evlog[i].seq = n /\ evlog[i].by > 0 /\ evlog[i].call = name}
\* the acknowledgment handle of event n went one way, once
DisposedOnce(n) == Cardinality(CallsOf(n, "Ack")) + Cardinality(CallsOf(n, "Debounce")) = 1
Untouched(n) == CallsOf(n, "Ack") = {} /\ CallsOf(n, "Debounce") = {}
ReturnedNil(n) ==
    /\ Cardinality(CallsOf(n, "return")) = 1
    /\ \A i \in CallsOf(n, "return") : evlog[i].ok

\* the kinds the switch of processEvent has a case for
SwitchKinds == Events(TRUE) \cup Events(FALSE)

AckDisposal(kinds) ==
    \A n \in 1..MaxEvents :
        Handled(n) =>
            /\ IF KindOf(n) \in kinds THEN DisposedOnce(n) ELSE Untouched(n)
            /\ ReturnedNil(n)

\* C38: for every event of a kind the service subscribes to, processEvent
\* disposes of the acknowledgment handle exactly once: it calls Ack once or
\* passes Ack to the debouncer once, never both and never neither; for an
\* event of any other kind it neither acknowledges nor debounces; and it
\* always returns nil
C38_SubscribedDisposedOnce == AckDisposal(Events(asyncUploads))

\* the same with the kinds of the switch in place of the kinds subscribed to:
\* FileUploaded and UploadReady are both debounced, whichever of them the
\* service asked for
C38_SwitchDisposedOnce == AckDisposal(SwitchKinds)

\* an event acknowledged by processEvent, one handed to the debouncer and one
\* of a kind without a case have been handled
C38_Witness ==
    \E i \in LogPos :
        /\ evlog[i].call = "Ack"
        /\ \E j \in LogPos : evlog[j].call = "Debounce" /\ evlog[j].seq # evlog[i].seq

\* an event of a kind that has no case returned with nothing done
C38_OtherKindHandled ==
    \E n \in 1..MaxEvents : Handled(n) /\ KindOf(n) \notin SwitchKinds /\ Untouched(n)

\* an upload event of the kind the service did not subscribe to is debounced
C38_UnsubscribedDebounced ==
    \E n \in 1..MaxEvents :
        Handled(n) /\ KindOf(n) \notin Events(asyncUploads) /\ DisposedOnce(n)

(***************************************************************************)
(* C39: a call that fails during Push on the clustered Batch (SpecBatch).  *)
(***************************************************************************)
\* the positions of a bulk call that the index accepted
RECURSIVE Accepted(_, _)
Accepted(pos, rejected) ==
    IF pos = <<>> THEN <<>>
    ELSE IF \E i \in 1..Len(rejected) : rejected[i] = Head(pos)
         THEN Accepted(Tail(pos), rejected)
         ELSE <<Head(pos)>> \o Accepted(Tail(pos), rejected)

\* the index after the first n calls of a Push, each one having succeeded
RECURSIVE Replayed(_, _, _, _)
Replayed(idx, ops, calls, n) ==
    IF n = 0 THEN idx
    ELSE LET before == Replayed(idx, ops, calls, n - 1)
             c == calls[n]
         IN IF c.k = "bulk" THEN OSBulk(before, ops, Accepted(c.pos, c.rejected))
            ELSE OSRunOp(before, ops[c.pos[1]], FALSE).idx

FailedCalls(calls) == {j \in 1..Len(calls) : ~calls[j].ok}

\* the step is a Push, called or run by the size limit, on the clustered
\* Batch, and one of its calls failed
PushFailed ==
    /\ backend = "opensearch"
    /\ last'.pushed
    /\ FailedCalls(last'.calls) # {}

FailedPush ==
    PushFailed =>
        LET ops == last'.stagedOps
            calls == last'.calls
            flat == FlatPos(calls)
            n == Len(calls)
        IN \* Push returns an error at once: the failing call is the last
           /\ last'.err
           /\ FailedCalls(calls) = {n}
           \* what was staged after the failing entry was not executed ...
           /\ flat = [i \in 1..Len(flat) |-> i]
           /\ Len(flat) <= Len(ops)
           \* ... and is discarded, with the failing entry, which is so not
           \* sent again by a later Push
           /\ operations' = <<>>
           /\ NoResend(calls)
           \* the index holds the effects of the calls before the failing one
           /\ index' = Replayed(index, ops, calls, n - 1)

\* C39: if a bulk flush or a query-addressed operation fails during Push on
\* the clustered Batch, Push returns an error at once: every staged entry
\* after the failing one is discarded without being executed, the effects of
\* the entries executed before it remain applied, and the failing entry is
\* not retried.
C39_FailedPush == [][FailedPush]_vars

\* C39's case: a Push whose first call changed the index and whose second call
\* failed, with an entry staged after the failing one
C39_Witness ==
    /\ backend = "opensearch"
    /\ last.pushed /\ last.err
    /\ Len(last.calls) = 2
    /\ last.calls[1].ok /\ last.calls[1].sent
    /\ ~last.calls[2].ok
    /\ Len(FlatPos(last.calls)) < Len(last.stagedOps)
    /\ operations = <<>>

\* the failing call was a bulk flush with a query-addressed entry behind it
C39_BulkFlushFailed ==
    /\ backend = "opensearch"
    /\ last.pushed /\ last.err
    /\ last.calls # <<>>
    /\ last.calls[Len(last.calls)].k = "bulk"
    /\ Len(FlatPos(last.calls)) < Len(last.stagedOps)

(***************************************************************************)
(* C40: Delete(C) followed by Restore(C) and the Deleted flags.            *)
(***************************************************************************)
\* every document of the index for which keeps(d) holds has in after the
\* Deleted value it has in the index
FlagsKept(after, keeps(_)) ==
    \A d \in index :
        keeps(d) => (Has(after, d.ID) /\ DocOf(after, d.ID).Deleted = d.Deleted)

\* Delete(id) and then Restore(id), both returning nil, keep the Deleted
\* value of the documents for which keeps(d) holds
DeleteRestoreKeeps(be, keeps(_)) ==
    \A id \in IDs :
        LET deleted == EngineDeleteResult(be, index, id, 0)
            restored == EngineRestoreResult(be, deleted.idx, id, 0)
        IN (Has(index, id) /\ ~deleted.err /\ ~restored.err)
              => FlagsKept(restored.idx, keeps)

EveryDocument(d) == TRUE
WasLive(d) == ~d.Deleted

C40_EmbeddedRoundTrip == DeleteRestoreKeeps("bleve", EveryDocument)

C40_ClusteredRoundTrip == DeleteRestoreKeeps("opensearch", EveryDocument)

\* what holds on both backends: a document that was live before Delete(C) is
\* live after Restore(C)
C40_LiveRoundTrip ==
    DeleteRestoreKeeps("bleve", WasLive) /\ DeleteRestoreKeeps("opensearch", WasLive)

\* a container is live and a descendant of it is already soft-deleted
C40_DeletedBelowLive ==
    \E c \in index :
        /\ c.Type = Container /\ ~c.Deleted
        /\ \E d \in Descendants(index, c) : d.Deleted

====
